---- MODULE Spec2Model ----
(***************************************************************************)
(* A model of the Zenco VS Code extension's CLI resolution and lifecycle    *)
(* manager (src/src/cliManager.ts) and of the commands that drive it.       *)
(*                                                                          *)
(* Text is modelled as sequences of symbols.  The banner printed by         *)
(* `zenco --help` is a sequence over BannerAlphabet, in which the one       *)
(* symbol BannerPrefix stands for the literal text "Zenco AI v"; a version  *)
(* is a sequence of digit and dot symbols.  File-system paths are strings.  *)
(***************************************************************************)
EXTENDS Integers, Sequences, FiniteSets, TLC

VARIABLES
    env,        \* the machine the extension runs on: processes, files, variables
    ret,        \* the value returned by the last direct call of a probe function
    dismissed,  \* globalState 'zenco.installPromptDismissed'
    flow,       \* the ensureCliInstalled / installCli invocations in progress
    second,     \* an ensureCliInstalled invocation started while flow is suspended
    feature     \* activate()'s pending state and the feature command in progress

vars == <<env, ret, dismissed, flow, second, feature>>

----------------------------------------------------------------------------
(* Bounds of the model *)

\* longest `--help` banner, in symbols
MaxBanner == 6
\* most candidate executables that exist on disk at once
MaxFiles == 2

----------------------------------------------------------------------------
(* Text *)

\* the digits the banners of the model are made of
Digits == {"0", "1"}
BannerPrefix == "Zenco AI v"
BannerAlphabet == Digits \cup {BannerPrefix, ".", "x"}
Whitespace == {" ", "\n"}

DecimalDigits == {"0", "1", "2", "3", "4", "5", "6", "7", "8", "9"}

DigitValue(d) ==
    CASE d = "0" -> 0 [] d = "1" -> 1 [] d = "2" -> 2 [] d = "3" -> 3 [] d = "4" -> 4
      [] d = "5" -> 5 [] d = "6" -> 6 [] d = "7" -> 7 [] d = "8" -> 8 [] d = "9" -> 9

\* String.prototype.includes on symbol sequences
Includes(s, sub) ==
    \E i \in 1..(Len(s) - Len(sub) + 1) : SubSeq(s, i, i + Len(sub) - 1) = sub

\* String.prototype.trim followed by reading the text as one string: stdout
\* is a sequence of tokens, leading and trailing whitespace tokens are dropped
RECURSIVE Concat(_)
Concat(toks) == IF toks = <<>> THEN "" ELSE Head(toks) \o Concat(Tail(toks))

Trim(toks) ==
    LET keep == {i \in 1..Len(toks) : toks[i] \notin Whitespace}
    IN  IF keep = {} THEN ""
        ELSE LET lo == CHOOSE i \in keep : \A j \in keep : i <= j
                 hi == CHOOSE i \in keep : \A j \in keep : j <= i
             IN  Concat(SubSeq(toks, lo, hi))

\* String.prototype.split('.')
RECURSIVE Split(_)
Split(s) ==
    LET dots == {i \in 1..Len(s) : s[i] = "."}
    IN  IF dots = {} THEN <<s>>
        ELSE LET d == CHOOSE i \in dots : \A j \in dots : i <= j
             IN  <<SubSeq(s, 1, d - 1)>> \o Split(SubSeq(s, d + 1, Len(s)))

\* Number(text), for texts made of decimal digits, signs, `x` and whitespace:
\* surrounding whitespace is dropped; the empty text is 0; a run of digits is
\* its decimal value, with a sign in front the signed value; `0x` and a run
\* of digits is the value of the digits in base 16; anything else is NaN
RECURSIVE Decimal(_)
Decimal(s) ==
    IF s = <<>> THEN 0
    ELSE 10 * Decimal(SubSeq(s, 1, Len(s) - 1)) + DigitValue(s[Len(s)])

RECURSIVE Hexadecimal(_)
Hexadecimal(s) ==
    IF s = <<>> THEN 0
    ELSE 16 * Hexadecimal(SubSeq(s, 1, Len(s) - 1)) + DigitValue(s[Len(s)])

IsDigitRun(s) == s # <<>> /\ \A i \in 1..Len(s) : s[i] \in DecimalDigits

StripWhitespace(s) ==
    LET keep == {i \in 1..Len(s) : s[i] \notin Whitespace}
    IN  IF keep = {} THEN <<>>
        ELSE SubSeq(s, CHOOSE i \in keep : \A j \in keep : i <= j,
                       CHOOSE i \in keep : \A j \in keep : j <= i)

NaN == [nan |-> TRUE, val |-> 0]

Number(text) ==
    LET s == StripWhitespace(text)
    IN  IF s = <<>> THEN [nan |-> FALSE, val |-> 0]
        ELSE IF IsDigitRun(s) THEN [nan |-> FALSE, val |-> Decimal(s)]
        ELSE IF s[1] = "+" /\ IsDigitRun(Tail(s))
        THEN [nan |-> FALSE, val |-> Decimal(Tail(s))]
        ELSE IF s[1] = "-" /\ IsDigitRun(Tail(s))
        THEN [nan |-> FALSE, val |-> 0 - Decimal(Tail(s))]
        ELSE IF Len(s) > 2 /\ s[1] = "0" /\ s[2] = "x" /\ IsDigitRun(SubSeq(s, 3, Len(s)))
        THEN [nan |-> FALSE, val |-> Hexadecimal(SubSeq(s, 3, Len(s)))]
        ELSE NaN

\* `x || 0` that lets NaN through, NaN comparing below every number
OrZero_Strict(n) == IF n.nan THEN 0 - 1000 ELSE n.val

\* `x || 0` for x a number or undefined: NaN and 0 are falsy
OrZero(n) == IF n.nan THEN 0 ELSE n.val

\* path.join: empty segments are skipped, the rest joined by the separator
Sep(platform) == IF platform = "win32" THEN "\\" ELSE "/"

RECURSIVE JoinSegments(_, _)
JoinSegments(sep, segs) ==
    IF Len(segs) = 1 THEN segs[1]
    ELSE segs[1] \o sep \o JoinSegments(sep, Tail(segs))

PathJoin(platform, parts) ==
    LET segs == SelectSeq(parts, LAMBDA p : p # "")
    IN  IF segs = <<>> THEN "." ELSE JoinSegments(Sep(platform), segs)

----------------------------------------------------------------------------
(* compareVersions *)

MINIMUM_ZENCO_VERSION == <<"0", ".", "1", ".", "0">>

\* parts[i] || 0, with parts[i] undefined past the end of the array
PartOrZero(parts, i) == IF i <= Len(parts) THEN OrZero(parts[i]) ELSE 0

\* the loop of compareVersions going on to a fourth component
RECURSIVE CompareFrom_FourParts(_, _, _)
CompareFrom_FourParts(parts1, parts2, i) ==
    IF i > 4 THEN 0
    ELSE LET num1 == PartOrZero(parts1, i)
             num2 == PartOrZero(parts2, i)
         IN  IF num1 > num2 THEN 1
             ELSE IF num1 < num2 THEN -1
             ELSE CompareFrom_FourParts(parts1, parts2, i + 1)

\* the loop of compareVersions taking equal components for v1 above v2
RECURSIVE CompareFrom_TiesUp(_, _, _)
CompareFrom_TiesUp(parts1, parts2, i) ==
    IF i > 3 THEN 0
    ELSE LET num1 == PartOrZero(parts1, i)
             num2 == PartOrZero(parts2, i)
         IN  IF num1 >= num2 /\ i = 3 THEN 1
             ELSE IF num1 > num2 THEN 1
             ELSE IF num1 < num2 THEN -1
             ELSE CompareFrom_TiesUp(parts1, parts2, i + 1)

RECURSIVE CompareFrom(_, _, _)
CompareFrom(parts1, parts2, i) ==
    IF i > 3 THEN 0
    ELSE LET num1 == PartOrZero(parts1, i)
             num2 == PartOrZero(parts2, i)
         IN  IF num1 > num2 THEN 1
             ELSE IF num1 < num2 THEN -1
             ELSE CompareFrom(parts1, parts2, i + 1)

\* compareVersions with its two versions taken in the wrong order
compareVersions_Swapped(v1, v2) ==
    LET parts1 == [i \in 1..Len(Split(v1)) |-> Number(Split(v1)[i])]
        parts2 == [i \in 1..Len(Split(v2)) |-> Number(Split(v2)[i])]
    IN  CompareFrom(parts2, parts1, 1)

compareVersions(v1, v2) ==
    LET parts1 == [i \in 1..Len(Split(v1)) |-> Number(Split(v1)[i])]
        parts2 == [i \in 1..Len(Split(v2)) |-> Number(Split(v2)[i])]
    IN  CompareFrom(parts1, parts2, 1)

----------------------------------------------------------------------------
(* The environment: what the child processes and the file system answer *)

PythonCommands == <<"python3", "python", "py">>
Null == "<null>"
Failed == [ok |-> FALSE, stdout |-> <<>>]
Answer(out) == [ok |-> TRUE, stdout |-> out]

\* execAsync('zenco --help') and execAsync(`"${zencoPath}" --help`): the bare
\* name is looked up on PATH, anything else is run as the file it names
ExecHelp(e, zencoPath) ==
    IF zencoPath = "zenco"
    THEN (IF e.bareOk THEN Answer(e.banner) ELSE Failed)
    ELSE (IF zencoPath \in e.files /\ e.pathOk THEN Answer(e.banner) ELSE Failed)

ExecPipxBinDir(e) == e.pipxBinDir
ExecPythonVersion(e, cmd) == e.pyVersion[cmd]
ExecPythonScripts(e, cmd) == e.pyScripts[cmd]
ExecPipxVersion(e) == e.pipxOk
ExecBrewVersion(e) == e.brewOk
ExistsSync(e, p) == p \in e.files

----------------------------------------------------------------------------
(* findPython *)

Python3Marker == <<"Python ", "3">>

\* findPython taking the first command whose version query succeeds,
\* whatever version it reports
RECURSIVE FindPythonFrom_AnyVersion(_, _)
FindPythonFrom_AnyVersion(e, i) ==
    IF i > Len(PythonCommands) THEN Null
    ELSE IF ExecPythonVersion(e, PythonCommands[i]).ok
         THEN PythonCommands[i]
         ELSE FindPythonFrom_AnyVersion(e, i + 1)

RECURSIVE FindPythonFrom(_, _)
FindPythonFrom(e, i) ==
    IF i > Len(PythonCommands) THEN Null
    ELSE LET r == ExecPythonVersion(e, PythonCommands[i])
         IN  IF r.ok /\ Includes(r.stdout, Python3Marker)
             THEN PythonCommands[i]
             ELSE FindPythonFrom(e, i + 1)

findPython(e) == FindPythonFrom(e, 1)

----------------------------------------------------------------------------
(* resolveZencoPath *)

ExeName(e) == IF e.platform = "win32" THEN "zenco.exe" ELSE "zenco"

HomeDir(e) ==
    IF e.HOME # "" THEN e.HOME
    ELSE IF e.USERPROFILE # "" THEN e.USERPROFILE
    ELSE ""

commonPaths(e) ==
    LET home == HomeDir(e)
    IN  << PathJoin(e.platform, <<home, ".local", "bin", "zenco">>),
           PathJoin(e.platform, <<home, ".local", "pipx", "venvs", "zenco", "bin", "zenco">>),
           "/opt/homebrew/bin/zenco",
           "/usr/local/bin/zenco",
           PathJoin(e.platform, <<home, "AppData", "Roaming", "Python", "Scripts", "zenco.exe">>),
           PathJoin(e.platform, <<home, ".local", "bin", "zenco.exe">>) >>

\* FirstExisting without the final `return 'zenco'`
RECURSIVE FirstExisting_NoDefault(_, _, _)
FirstExisting_NoDefault(e, paths, i) ==
    IF i > Len(paths) THEN ""
    ELSE IF ExistsSync(e, paths[i]) THEN paths[i]
    ELSE FirstExisting_NoDefault(e, paths, i + 1)

\* for (const p of commonPaths) if (fs.existsSync(p)) return p;  return 'zenco'
RECURSIVE FirstExisting(_, _, _)
FirstExisting(e, paths, i) ==
    IF i > Len(paths) THEN "zenco"
    ELSE IF ExistsSync(e, paths[i]) THEN paths[i]
    ELSE FirstExisting(e, paths, i + 1)

PipxCandidate(e) ==
    PathJoin(e.platform, <<Trim(ExecPipxBinDir(e).stdout), ExeName(e)>>)

UserScriptsCandidate(e) ==
    LET found == findPython(e)
        pythonCmd == IF found # Null THEN found ELSE "python3"
    IN  [ok |-> ExecPythonScripts(e, pythonCmd).ok,
         path |-> PathJoin(e.platform,
                           <<Trim(ExecPythonScripts(e, pythonCmd).stdout), ExeName(e)>>)]

\* resolveZencoPath with the fixed paths tried before the two queries
resolveZencoPath_FixedFirst(e) ==
    IF ExecHelp(e, "zenco").ok THEN "zenco"
    ELSE IF FirstExisting(e, commonPaths(e), 1) # "zenco"
         THEN FirstExisting(e, commonPaths(e), 1)
    ELSE IF ExecPipxBinDir(e).ok /\ ExistsSync(e, PipxCandidate(e))
         THEN PipxCandidate(e)
    ELSE IF UserScriptsCandidate(e).ok /\ ExistsSync(e, UserScriptsCandidate(e).path)
         THEN UserScriptsCandidate(e).path
    ELSE "zenco"

resolveZencoPath(e) ==
    IF ExecHelp(e, "zenco").ok THEN "zenco"
    ELSE IF ExecPipxBinDir(e).ok /\ ExistsSync(e, PipxCandidate(e))
         THEN PipxCandidate(e)
    ELSE IF UserScriptsCandidate(e).ok /\ ExistsSync(e, UserScriptsCandidate(e).path)
         THEN UserScriptsCandidate(e).path
    ELSE FirstExisting(e, commonPaths(e), 1)

----------------------------------------------------------------------------
(* checkCliInstallation *)

Unknown == <<"u", "n", "k", "n", "o", "w", "n">>
NoMatch == <<>>

\* the end of the longest run of digits that starts at position i (i - 1 if
\* there is none)
RECURSIVE DigitRunEnd(_, _)
DigitRunEnd(s, i) ==
    IF i <= Len(s) /\ s[i] \in Digits THEN DigitRunEnd(s, i + 1) ELSE i - 1

\* /Zenco AI v(\d+\.\d+\.\d+)/ tried at position i: the captured group, or NoMatch
MatchAt(s, i) ==
    LET a == DigitRunEnd(s, i + 1)
        b == DigitRunEnd(s, a + 2)
        c == DigitRunEnd(s, b + 2)
    IN  IF /\ s[i] = BannerPrefix
           /\ a >= i + 1 /\ a + 1 <= Len(s) /\ s[a + 1] = "."
           /\ b >= a + 2 /\ b + 1 <= Len(s) /\ s[b + 1] = "."
           /\ c >= b + 2
        THEN SubSeq(s, i + 1, c)
        ELSE NoMatch

\* stdout.match(...): the leftmost match
VersionMatch(stdout) ==
    LET hits == {i \in 1..Len(stdout) : MatchAt(stdout, i) # NoMatch}
    IN  IF hits = {} THEN NoMatch
        ELSE MatchAt(stdout, CHOOSE i \in hits : \A j \in hits : i <= j)

\* checkCliInstallation without its try/catch: a failed probe is rethrown
checkCliInstallation_Uncaught(e) ==
    LET zencoPath == resolveZencoPath(e)
        help == ExecHelp(e, zencoPath)
        versionMatch == VersionMatch(help.stdout)
    IN  IF help.ok
        THEN IF versionMatch # NoMatch
             THEN [installed |-> TRUE,
                   version |-> versionMatch,
                   needsUpgrade |-> compareVersions(versionMatch, MINIMUM_ZENCO_VERSION) < 0,
                   resolvedPath |-> zencoPath]
             ELSE [installed |-> TRUE,
                   version |-> Unknown,
                   needsUpgrade |-> FALSE,
                   resolvedPath |-> zencoPath]
        ELSE [raised |-> "Command failed"]

\* checkCliInstallation taking an unreadable banner for a missing CLI
checkCliInstallation_StrictBanner(e) ==
    LET zencoPath == resolveZencoPath(e)
        help == ExecHelp(e, zencoPath)
        versionMatch == VersionMatch(help.stdout)
    IN  IF help.ok /\ versionMatch # NoMatch
        THEN [installed |-> TRUE,
              version |-> versionMatch,
              needsUpgrade |-> compareVersions(versionMatch, MINIMUM_ZENCO_VERSION) < 0,
              resolvedPath |-> zencoPath]
        ELSE [installed |-> FALSE, resolvedPath |-> resolveZencoPath(e)]

checkCliInstallation(e) ==
    LET zencoPath == resolveZencoPath(e)
        help == ExecHelp(e, zencoPath)
        versionMatch == VersionMatch(help.stdout)
    IN  IF help.ok
        THEN IF versionMatch # NoMatch
             THEN [installed |-> TRUE,
                   version |-> versionMatch,
                   needsUpgrade |-> compareVersions(versionMatch, MINIMUM_ZENCO_VERSION) < 0,
                   resolvedPath |-> zencoPath]
             ELSE [installed |-> TRUE,
                   version |-> Unknown,
                   needsUpgrade |-> FALSE,
                   resolvedPath |-> zencoPath]
        ELSE [installed |-> FALSE, resolvedPath |-> resolveZencoPath(e)]

----------------------------------------------------------------------------
(* The install flow: ensureCliInstalled, installCli and their helpers.      *)
(* A flow record holds the locals of one invocation and what it has done so *)
(* far; each operator below runs the code from one suspension point (a      *)
(* prompt or a timer) to the next and gives the record that results.        *)

Undefined == "<undefined>"

NotFoundError == "Python 3 not found. Please install Python 3 first, then try again."
PipxFailedError == "Failed to install pipx. Falling back to pip --user."
ManualFailedError == "Could not open manual instructions. Please check the Output panel for details."
PathHint == "Zenco CLI installed! If you see errors, try restarting VS Code to refresh your PATH."
InstalledInfo == "Zenco CLI installed!"
ReadyInfo == "Zenco CLI is installed and ready!"

IdleFlow ==
    [pc |-> "idle",            \* where the invocation is suspended
     caller |-> "none",        \* the command (or activation) that started it
     force |-> FALSE,          \* ensureCliInstalled's force
     wasDismissed |-> FALSE,   \* ensureCliInstalled's wasDismissed, once read
     upgrade |-> FALSE,        \* installCli's upgrade
     pythonCmd |-> Null,       \* installCli's pythonCmd
     method |-> "none",        \* installMethod.method
     builtWith |-> "none",     \* installMethod.method when the command was built
     result |-> "none",        \* what ensureCliInstalled returned
     cliResult |-> "none",     \* what installCli returned
     asked |-> "unasked",      \* answer to the not-installed or the upgrade prompt
     bootstrap |-> "unasked",  \* answer to 'Install pipx now?'
     confirm |-> "unasked",    \* answer to 'Is pipx installation complete?'
     verify |-> "unasked",     \* answer to 'Click "Verify" when complete.'
     probes |-> <<>>,          \* results of checkCliInstallation, in order
     pipxProbes |-> <<>>,      \* results of checkPipxAvailable, in order
     brewProbes |-> <<>>,      \* results of checkBrewAvailable, in order
     terminals |-> <<>>,       \* terminals created, with the lines sent to each
     errors |-> {},            \* error messages shown
     infos |-> {},             \* information messages shown
     manual |-> "none",        \* the manual instructions document
     hint |-> "none"]          \* the PATH-refresh hint notification

checkPipxAvailable(e) == ExecPipxVersion(e)
checkBrewAvailable(e) == ExecBrewVersion(e)

\* determineInstallMethod falling back to pip --user when pipx is missing
determineInstallMethod_PipUser(e) == IF checkPipxAvailable(e) THEN "pipx" ELSE "pip-user"

\* determineInstallMethod
determineInstallMethod(e) == IF checkPipxAvailable(e) THEN "pipx" ELSE "pipx-missing"

\* showManualInstallInstructions; opens tells whether the document could be shown
showManualInstallInstructions(f, opens) ==
    IF opens THEN [f EXCEPT !.manual = "shown"]
    ELSE [f EXCEPT !.manual = "failed", !.errors = @ \cup {ManualFailedError}]

\* ensureCliInstalled returns r
Return(f, r) == [f EXCEPT !.pc = "done", !.result = r]

\* InstallCommand that asks pipx to install also when upgrading
InstallCommand_NoUpgrade(method, pythonCmd, upgrade) ==
    IF method = "pipx" THEN "pipx install zenco"
    ELSE pythonCmd \o " -m pip install --user zenco" \o (IF upgrade THEN " --upgrade" ELSE "")

\* InstallCommand that passes --upgrade to pip on every install
InstallCommand_Flagged(method, pythonCmd, upgrade) ==
    IF method = "pipx"
    THEN "pipx " \o (IF upgrade THEN "upgrade" ELSE "install") \o " zenco"
    ELSE pythonCmd \o " -m pip install --user zenco --upgrade"

\* the install command of installCli, lines 316-330
InstallCommand(method, pythonCmd, upgrade) ==
    IF method = "pipx"
    THEN "pipx " \o (IF upgrade THEN "upgrade" ELSE "install") \o " zenco"
    ELSE pythonCmd \o " -m pip install --user zenco" \o (IF upgrade THEN " --upgrade" ELSE "")

TerminalName(method) ==
    IF method = "pipx" THEN "Zenco CLI Installation (pipx)"
    ELSE "Zenco CLI Installation (pip --user)"

InstallSentinel == "echo \"ZENCO_INSTALL_COMPLETE\""
PipxSentinel == "echo \"PIPX_INSTALL_COMPLETE\""

\* SendInstall sending the sentinel line ahead of the install command
SendInstall_SentinelFirst(f) ==
    [f EXCEPT !.builtWith = f.method,
              !.terminals = Append(@, [name |-> TerminalName(f.method),
                                       sent |-> << InstallSentinel,
                                                   InstallCommand(f.method, f.pythonCmd, f.upgrade) >>]),
              !.pc = "settleTimer"]

\* installCli from the building of the command to the settle timer
SendInstall(f) ==
    [f EXCEPT !.builtWith = f.method,
              !.terminals = Append(@, [name |-> TerminalName(f.method),
                                       sent |-> << InstallCommand(f.method, f.pythonCmd, f.upgrade),
                                                   InstallSentinel >>]),
              !.pc = "settleTimer"]

\* installCli from its call to its first prompt or timer
installCli(f, e, pythonCmd, upgrade) ==
    LET f1 == [f EXCEPT !.pythonCmd = pythonCmd, !.upgrade = upgrade,
                        !.pipxProbes = Append(@, checkPipxAvailable(e)),
                        !.method = determineInstallMethod(e)]
    IN  IF f1.method = "pipx-missing"
        THEN [f1 EXCEPT !.pc = "bootstrapPrompt"]
        ELSE SendInstall(f1)

\* installPipx from its call to its timer
installPipx(f, e) ==
    LET hasBrew == checkBrewAvailable(e)
        lines == IF hasBrew
                 THEN << "brew install pipx" >>
                 ELSE << f.pythonCmd \o " -m pip install --user pipx",
                         f.pythonCmd \o " -m pipx ensurepath" >>
    IN  [f EXCEPT !.brewProbes = Append(@, hasBrew),
                  !.terminals = Append(@, [name |-> "Install pipx",
                                           sent |-> Append(lines, PipxSentinel)]),
                  !.pc = "pipxTimer"]

\* MethodAfterBootstrap without the final else: a dismissed prompt leaves
\* the method as the selector gave it
MethodAfterBootstrap_NoElse(choice, pipxInstalled) ==
    IF choice = "Install pipx"
    THEN (IF pipxInstalled THEN "pipx" ELSE "pip-user")
    ELSE IF choice = "Try fallback (pip --user)" THEN "pip-user"
    ELSE "pipx-missing"

\* MethodAfterBootstrap taking the bootstrap for done whatever installPipx says
MethodAfterBootstrap_Trusting(choice, pipxInstalled) ==
    IF choice = "Install pipx" THEN "pipx" ELSE "pip-user"

\* installMethod.method once the bootstrap prompt is handled, lines 298-308
MethodAfterBootstrap(choice, pipxInstalled) ==
    IF choice = "Install pipx"
    THEN (IF pipxInstalled THEN "pipx" ELSE "pip-user")
    ELSE "pip-user"

\* the answer to 'Install pipx now?'
OnBootstrapChoice(f, e, choice) ==
    LET f1 == [f EXCEPT !.bootstrap = choice]
    IN  IF choice = "Install pipx"
        THEN installPipx(f1, e)
        ELSE SendInstall([f1 EXCEPT !.method = MethodAfterBootstrap(choice, FALSE)])

\* the answer to 'Is pipx installation complete?', lines 220-224 and 300-305
OnPipxConfirm(f, e, choice) ==
    LET reprobe == choice = "Yes, Continue"
        pipxInstalled == IF reprobe THEN checkPipxAvailable(e) ELSE FALSE
        f1 == [f EXCEPT !.confirm = choice,
                        !.pipxProbes = IF reprobe THEN Append(@, pipxInstalled) ELSE @,
                        !.errors = IF pipxInstalled THEN @ ELSE @ \cup {PipxFailedError},
                        !.method = MethodAfterBootstrap(f.bootstrap, pipxInstalled)]
    IN  SendInstall(f1)

\* validatePath that takes the install for done without asking the probe
validatePath_Unprobed(e) == TRUE

\* validatePath: whether the probe now reports the CLI installed
validatePath(e) == checkCliInstallation(e).installed

\* OnVerifyChoice that runs the install again when verification fails
OnVerifyChoice_Retrying(f, e, choice, opens) ==
    LET f1 == [f EXCEPT !.verify = choice]
    IN  IF choice = "Verify Installation" /\ ~validatePath(e)
        THEN SendInstall([f1 EXCEPT !.probes = Append(@, checkCliInstallation(e)),
                                    !.infos = @ \cup {PathHint}])
        ELSE Return([f1 EXCEPT !.cliResult = IF choice = "Verify Installation"
                                             THEN "true" ELSE "false"],
                    IF choice = "Verify Installation" THEN "true" ELSE "false")

\* OnVerifyChoice whose promise stays unresolved when the manual
\* instructions cannot be opened
OnVerifyChoice_ManualThrows(f, e, choice, opens) ==
    LET f1 == [f EXCEPT !.verify = choice]
    IN  IF choice = "Verify Installation"
        THEN IF validatePath(e)
             THEN Return([f1 EXCEPT !.probes = @ \o <<checkCliInstallation(e),
                                                      checkCliInstallation(e)>>,
                                    !.infos = @ \cup {InstalledInfo},
                                    !.cliResult = "true"], "true")
             ELSE Return([f1 EXCEPT !.probes = Append(@, checkCliInstallation(e)),
                                    !.infos = @ \cup {PathHint},
                                    !.hint = "shown",
                                    !.cliResult = "false"], "false")
        ELSE IF choice = "Show Manual Instructions"
        THEN IF opens
             THEN Return([showManualInstallInstructions(f1, opens)
                             EXCEPT !.cliResult = "false"], "false")
             ELSE [showManualInstallInstructions(f1, opens) EXCEPT !.pc = "unresolved"]
        ELSE Return([f1 EXCEPT !.cliResult = "false"], "false")

\* the answer to 'Installation running. Click "Verify" when complete.',
\* lines 346-360, and the return of installCli to ensureCliInstalled
OnVerifyChoice(f, e, choice, opens) ==
    LET f1 == [f EXCEPT !.verify = choice]
    IN  IF choice = "Verify Installation"
        THEN IF validatePath(e)
             THEN Return([f1 EXCEPT !.probes = @ \o <<checkCliInstallation(e),
                                                      checkCliInstallation(e)>>,
                                    !.infos = @ \cup {InstalledInfo},
                                    !.cliResult = "true"], "true")
             ELSE Return([f1 EXCEPT !.probes = Append(@, checkCliInstallation(e)),
                                    !.infos = @ \cup {PathHint},
                                    !.hint = "shown",
                                    !.cliResult = "false"], "false")
        ELSE IF choice = "Show Manual Instructions"
        THEN Return([showManualInstallInstructions(f1, opens)
                        EXCEPT !.cliResult = "false"], "false")
        ELSE Return([f1 EXCEPT !.cliResult = "false"], "false")

\* ensureCliInstalled that never reads the dismissal flag
ensureCliInstalled_Unread(f, e, wasDismissed, force) ==
    LET cliCheck == checkCliInstallation(e)
        f1 == [f EXCEPT !.force = force, !.probes = Append(@, cliCheck)]
    IN  IF cliCheck.installed /\ ~cliCheck.needsUpgrade THEN Return(f1, "true")
        ELSE IF cliCheck.installed THEN [f1 EXCEPT !.pc = "upgradePrompt"]
        ELSE [f1 EXCEPT !.pc = "installPrompt", !.wasDismissed = wasDismissed]

\* ensureCliInstalled from its call to its first prompt
ensureCliInstalled(f, e, wasDismissed, force) ==
    LET cliCheck == checkCliInstallation(e)
        f1 == [f EXCEPT !.force = force, !.probes = Append(@, cliCheck)]
    IN  IF cliCheck.installed /\ ~cliCheck.needsUpgrade THEN Return(f1, "true")
        ELSE IF cliCheck.installed /\ cliCheck.needsUpgrade
             THEN [f1 EXCEPT !.pc = "upgradePrompt"]
        ELSE IF wasDismissed /\ ~force
             THEN Return([f1 EXCEPT !.wasDismissed = wasDismissed], "false")
        ELSE [f1 EXCEPT !.pc = "installPrompt", !.wasDismissed = wasDismissed]

\* the answer to 'Zenco CLI ... is outdated. ... Upgrade now?', lines 392-404
OnUpgradeChoice(f, e, choice, opens) ==
    LET f1 == [f EXCEPT !.asked = choice]
        pythonCmd == findPython(e)
    IN  IF choice = "Upgrade"
        THEN IF pythonCmd # Null
             THEN installCli(f1, e, pythonCmd, TRUE)
             ELSE Return(showManualInstallInstructions(f1, opens), "false")
        ELSE IF choice = "Manual Instructions"
        THEN Return(showManualInstallInstructions(f1, opens), "false")
        ELSE Return(f1, "false")

\* the answer to 'Zenco CLI is not installed. ... install it now?', lines 424-449
OnInstallChoice(f, e, choice, opens) ==
    LET f1 == [f EXCEPT !.asked = choice]
        pythonCmd == findPython(e)
    IN  IF choice = "Install"
        THEN IF pythonCmd # Null
             THEN installCli(f1, e, pythonCmd, FALSE)
             ELSE Return(showManualInstallInstructions(
                             [f1 EXCEPT !.errors = @ \cup {NotFoundError}], opens), "false")
        ELSE IF choice = "Manual Instructions"
        THEN Return(showManualInstallInstructions(f1, opens), "false")
        ELSE Return(f1, "false")

\* DismissedAfterChoice taking a dismissed prompt for "Don't Show Again"
DismissedAfterChoice_OnCancel(d, choice) ==
    IF choice \in {"Don't Show Again", Undefined} THEN TRUE ELSE d

\* the dismissal flag after the not-installed prompt is answered, line 445
DismissedAfterChoice(d, choice) == IF choice = "Don't Show Again" THEN TRUE ELSE d

\* DismissedAfterInstall that leaves the flag as it is
DismissedAfterInstall_Kept(d, f) == d

\* DismissedAfterInstall that takes a failed install for a refusal
DismissedAfterInstall_SetOnFailure(d, f) ==
    IF f.pc = "done" /\ f.cliResult = "false" THEN TRUE
    ELSE IF f.pc = "done" /\ ~f.upgrade /\ f.cliResult = "true" THEN FALSE ELSE d

\* the dismissal flag after installCli returned to ensureCliInstalled: only
\* the not-installed branch clears it, lines 427-431 against line 395
DismissedAfterInstall(d, f) ==
    IF f.pc = "done" /\ ~f.upgrade /\ f.cliResult = "true" THEN FALSE ELSE d

\* the 'zenco-vscode.checkCli' command up to its prompt
checkCli(f, e) ==
    LET result == checkCliInstallation(e)
        f1 == [f EXCEPT !.probes = Append(@, result)]
    IN  IF result.installed
        THEN [f1 EXCEPT !.pc = "done", !.infos = @ \cup {ReadyInfo}]
        ELSE [f1 EXCEPT !.pc = "checkCliPrompt"]

----------------------------------------------------------------------------
(* Editors *)

\* the text editors that may be active when a feature command is invoked
Editors == {"a.py", "b.py"}

----------------------------------------------------------------------------
(* Feature commands: runZencoFeature, runZencoCommand and applyPending *)

\* a ZencoResult; a field the code leaves out is Null
ZencoResult(success, output, error, original, modified) ==
    [success |-> success, output |-> output, error |-> error,
     originalContent |-> original, modifiedContent |-> modified]

\* pendingResult = null
NullResult == ZencoResult(FALSE, Null, Null, Null, Null)

\* activate()'s closure state and the locals of the feature command in
\* progress, before any command has run
IdleFeature ==
    [pc |-> "idle",
     name |-> "none",            \* featureName of the command in progress
     editor |-> Null,            \* the editor captured by runZencoFeature
     applyChanges |-> FALSE,
     probes |-> <<>>,            \* runZencoCommand's probe results, in order
     command |-> <<>>,           \* the zenco command line that was executed
     pendingResult |-> NullResult,
     pendingEditor |-> Null,
     statusBar |-> "zenco-vscode.showMenu",
     documents |-> [d \in Editors |-> "original"],
     diff |-> "closed",
     messages |-> <<>>]

\* the feature commands and the options they pass to runZencoCommand
Features == {"Refactor File", "Add Docstrings"}
FeatureOptions(name) ==
    IF name = "Refactor File" THEN <<"--refactor">> ELSE <<"--docstrings">>

NoEditorError == "No file is currently open!"
NoPendingError == "No pending changes to apply."
NoApiKeyError == "No API key configured"
CommandFailed == "Command failed"
NoResultError == "No result found for file"
NoChangesWarning == "No changes returned from Zenco."
NoDiffWarning == "Could not show diff: missing content."
AppliedInfo == "applied successfully!"
PreviewInfo == "Previewing"
DiscardedInfo == "Changes discarded."
PendingAppliedInfo == "Changes applied successfully!"

\* what the file becomes when the feature's changes are written to it
Modified(name, file) == name \o ": " \o file

\* what `zenco run <file> ... --json` may do once the executable starts: exit
\* non-zero, report errors, report no result, report the file's result with
\* or without its contents, print something that is not JSON, print to
\* stderr only, or print a JSON object that has no `results`
CliRuns(name, file) ==
    { [kind |-> "failed", success |-> FALSE, original |-> Null, modified |-> Null],
      [kind |-> "errors", success |-> FALSE, original |-> Null, modified |-> Null],
      [kind |-> "no-result", success |-> FALSE, original |-> Null, modified |-> Null],
      [kind |-> "text", success |-> TRUE, original |-> Null, modified |-> Null],
      [kind |-> "stderr", success |-> FALSE, original |-> Null, modified |-> Null],
      [kind |-> "no-results-field", success |-> TRUE, original |-> Null, modified |-> Null] }
    \cup { [kind |-> "result", success |-> ok, original |-> o, modified |-> m] :
             ok \in BOOLEAN, o \in {Null, "original"}, m \in {Null, Modified(name, file)} }

\* ZencoConfig.getConfig(): the settings under `zenco`
ZencoConfig(provider, apiKey, model, docstringStyle, strategy) ==
    [provider |-> provider, apiKey |-> apiKey, model |-> model,
     docstringStyle |-> docstringStyle, strategy |-> strategy]

\* ZencoConfig.isConfigValid
isConfigValid(config) == ~(config.strategy = "llm" /\ config.apiKey = "")

\* ZencoConfig.buildCliArgs that puts the API key among the arguments
buildCliArgs_WithKey(config, baseArgs) ==
    baseArgs
        \o (IF config.provider # "" THEN <<"--provider", config.provider>> ELSE <<>>)
        \o (IF config.model # "" THEN <<"--model", config.model>> ELSE <<>>)
        \o <<"--api-key", config.apiKey>>
        \o <<"--style", config.docstringStyle>>
        \o <<"--strategy", config.strategy>>

\* ZencoConfig.buildCliArgs
buildCliArgs(config, baseArgs) ==
    baseArgs
        \o (IF config.provider # "" THEN <<"--provider", config.provider>> ELSE <<>>)
        \o (IF config.model # "" THEN <<"--model", config.model>> ELSE <<>>)
        \o <<"--style", config.docstringStyle>>
        \o <<"--strategy", config.strategy>>

\* Array.from(new Set(xs)): the first occurrence of each element, in order
Dedupe(xs) ==
    LET keep == {i \in 1..Len(xs) : \A j \in 1..(i - 1) : xs[j] # xs[i]}
    IN  [k \in 1..Cardinality(keep) |->
            xs[CHOOSE i \in keep : Cardinality({j \in keep : j <= i}) = k]]

\* uniqueOptions, line 41
uniqueOptions(config, options) == Dedupe(buildCliArgs(config, options) \o <<"--json">>)

\* the environment variables a provider's key is passed in
ApiKeyVars == {"GROQ_API_KEY", "OPENAI_API_KEY", "ANTHROPIC_API_KEY", "GEMINI_API_KEY"}

ProviderVar(provider) ==
    CASE provider = "groq" -> "GROQ_API_KEY"
      [] provider = "openai" -> "OPENAI_API_KEY"
      [] provider = "anthropic" -> "ANTHROPIC_API_KEY"
      [] provider = "gemini" -> "GEMINI_API_KEY"
      [] OTHER -> Null

\* process.env of the extension host: one provider's key is set outside
ProcessEnv == [v \in ApiKeyVars |-> IF v = "OPENAI_API_KEY" THEN "inherited" ELSE ""]

\* ZencoConfig.getEnvVars
getEnvVars(config) ==
    [v \in ApiKeyVars |->
        IF config.apiKey # "" /\ v = ProviderVar(config.provider)
        THEN config.apiKey ELSE ProcessEnv[v]]

\* the command line runZencoCommand executes, line 47
ZencoCommand(zencoExecutable, file, options) ==
    <<zencoExecutable, "run", file>> \o options

\* zencoExecutable that is the bare name whatever the probe resolved
zencoExecutable_Bare(cliCheck) == "zenco"

\* `cliCheck.resolvedPath || 'zenco'`, line 45
zencoExecutable(cliCheck) ==
    IF cliCheck.resolvedPath = "" THEN "zenco" ELSE cliCheck.resolvedPath

\* what a block of code ends in: a value returned or an exception raised
Returned(v) == [raised |-> FALSE, value |-> v]
Raised == [raised |-> TRUE, value |-> NullResult]

\* the inner try block, lines 55-90: no JSON in the output, and `results`
\* missing from it, raise
ParseOutput(run) ==
    IF run.kind \in {"text", "stderr", "no-results-field"} THEN Raised
    ELSE IF run.kind = "errors"
    THEN Returned(ZencoResult(FALSE, Null, "errors[0].message", Null, Null))
    ELSE IF run.kind = "no-result"
    THEN Returned(ZencoResult(FALSE, Null, NoResultError, Null, Null))
    ELSE Returned(ZencoResult(run.success, "formatOutput", Null, run.original, run.modified))

\* catch (parseError), lines 92-101
OnParseError(outcome, run) ==
    IF ~outcome.raised THEN outcome
    ELSE IF run.kind = "stderr"
    THEN Returned(ZencoResult(FALSE, Null, "stderr", Null, Null))
    ELSE Returned(ZencoResult(TRUE, "stdout", Null, Null, Null))

\* execAsync(zencoCommand) and what follows it, lines 53-101; execAsync
\* raises when the executable does not start or exits non-zero
Execute(starts, run) ==
    IF ~starts \/ run.kind = "failed" THEN Raised
    ELSE OnParseError(ParseOutput(run), run)

\* catch (error) that lets the exception go on to the caller
OnError_Rethrow(outcome) == outcome

\* catch (error), lines 102-107
OnError(outcome) ==
    IF outcome.raised
    THEN Returned(ZencoResult(FALSE, Null, CommandFailed, Null, Null))
    ELSE outcome

\* the outcome of runZencoCommand once the command line is built
ResultOfRun(starts, run) == OnError(Execute(starts, run))

\* what runZencoCommand did: the probes it made, the command line it built
\* (empty when it built none), the lines it logged, the environment of the
\* child process, whether it raised, and the ZencoResult it returned
Ran(probes, command, childEnv, run, outcome) ==
    [probes |-> probes, command |-> command,
     logs |-> IF command = <<>> THEN <<>>
              ELSE <<<<"Running: ">> \o command>>
                   \o (IF run.kind \in {"text", "stderr", "no-results-field"}
                          /\ outcome.value.error # CommandFailed
                       THEN <<<<"JSON Parse Error: ">>, <<"Raw Output: ", "stdout">>>>
                       ELSE <<>>),
     childEnv |-> childEnv,
     raised |-> outcome.raised, result |-> outcome.value]

\* runZencoCommand after its probe returned cliCheck, lines 45-107
RunWith(e, cliCheck, name, file, config, run) ==
    Ran(<<cliCheck>>,
        ZencoCommand(zencoExecutable(cliCheck), file, uniqueOptions(config, FeatureOptions(name))),
        getEnvVars(config), run,
        ResultOfRun(ExecHelp(e, zencoExecutable(cliCheck)).ok, run))

\* runZencoCommand
runZencoCommand(e, name, file, config, run) ==
    IF ~isConfigValid(config)
    THEN Ran(<<>>, <<>>, ProcessEnv, run,
             Returned(ZencoResult(FALSE, Null, NoApiKeyError, Null, Null)))
    ELSE RunWith(e, checkCliInstallation(e), name, file, config, run)

resetStatusBar(ft) == [ft EXCEPT !.statusBar = "zenco-vscode.showMenu"]
showApplyStatusBar(ft) == [ft EXCEPT !.statusBar = "zenco-vscode.applyPending"]

Show(ft, message) == [ft EXCEPT !.messages = Append(@, message)]

\* runZencoFeature from its call to the Preview/Apply quick pick, lines 394-414
runZencoFeature(ft, name, activeEditor) ==
    IF activeEditor = Null
    THEN [ft EXCEPT !.messages = <<NoEditorError>>, !.probes = <<>>, !.command = <<>>]
    ELSE [ft EXCEPT !.messages = <<>>, !.probes = <<>>, !.command = <<>>,
                    !.pendingResult = NullResult,
                    !.pendingEditor = IF ft.pendingResult # NullResult THEN Null ELSE @,
                    !.statusBar = IF ft.pendingResult # NullResult
                                  THEN "zenco-vscode.showMenu" ELSE @,
                    !.pc = "quickPick", !.name = name, !.editor = activeEditor]

\* the answer to '<feature>: Preview or Apply?', lines 416-420
OnQuickPick(ft, choice) ==
    IF choice = Undefined
    THEN [ft EXCEPT !.pc = "idle"]
    ELSE [ft EXCEPT !.pc = "running", !.applyChanges = (choice = "Apply Changes")]

\* OnResult writing the previewed content into the document at once
OnResult_EditsOnPreview(ft, result) ==
    IF ~result.success
    THEN Show(ft, result.error)
    ELSE IF ft.applyChanges
    THEN IF result.modifiedContent # Null
         THEN Show([ft EXCEPT !.documents[ft.editor] = result.modifiedContent],
                   AppliedInfo)
         ELSE Show(ft, NoChangesWarning)
    ELSE IF result.originalContent # Null /\ result.modifiedContent # Null
         THEN Show(showApplyStatusBar([ft EXCEPT !.diff = "shown",
                                                 !.documents[ft.editor] = result.modifiedContent,
                                                 !.pendingResult = result,
                                                 !.pendingEditor = ft.editor]),
                   PreviewInfo)
         ELSE Show(ft, NoDiffWarning)

\* runZencoFeature once the feature function returned result, lines 429-477
OnResult(ft, result) ==
    IF ~result.success
    THEN Show(ft, result.error)
    ELSE IF ft.applyChanges
    THEN IF result.modifiedContent # Null
         THEN Show([ft EXCEPT !.documents[ft.editor] = result.modifiedContent],
                   AppliedInfo)
         ELSE Show(ft, NoChangesWarning)
    ELSE IF result.originalContent # Null /\ result.modifiedContent # Null
         THEN Show(showApplyStatusBar([ft EXCEPT !.diff = "shown",
                                                 !.pendingResult = result,
                                                 !.pendingEditor = ft.editor]),
                   PreviewInfo)
         ELSE Show(ft, NoDiffWarning)

\* the feature function ran and returned
AfterRun(ft, ran) ==
    OnResult([ft EXCEPT !.pc = "idle", !.probes = ran.probes, !.command = ran.command],
             ran.result)

\* the withProgress callback of runZencoFeature, lines 426-478
OnFeatureResult(ft, e, config, run) ==
    AfterRun(ft, runZencoCommand(e, ft.name, ft.editor, config, run))

\* 'zenco-vscode.applyPending' from its call to its quick pick, lines 486-501
applyPending(ft) ==
    LET ft0 == [ft EXCEPT !.messages = <<>>]
    IN  IF ft0.pendingResult = NullResult \/ ft0.pendingEditor = Null
        THEN resetStatusBar(Show(ft0, NoPendingError))
        ELSE [ft0 EXCEPT !.pc = "applyPick"]

\* OnApplyPick whose discard leaves the pending result stored
OnApplyPick_DiscardKeeps(ft, choice) ==
    IF choice = Undefined
    THEN [ft EXCEPT !.pc = "idle"]
    ELSE IF choice = "discard"
    THEN Show(resetStatusBar([ft EXCEPT !.pc = "idle", !.diff = "closed"]),
              DiscardedInfo)
    ELSE resetStatusBar(
             [Show(ft, PendingAppliedInfo)
                EXCEPT !.pc = "idle",
                       !.documents[ft.pendingEditor] = ft.pendingResult.modifiedContent,
                       !.pendingResult = NullResult, !.pendingEditor = Null,
                       !.diff = "closed"])

\* the answer to 'Apply or Discard pending changes?', lines 503-538
OnApplyPick(ft, choice) ==
    IF choice = Undefined
    THEN [ft EXCEPT !.pc = "idle"]
    ELSE IF choice = "discard"
    THEN Show(resetStatusBar([ft EXCEPT !.pc = "idle", !.pendingResult = NullResult,
                                        !.pendingEditor = Null, !.diff = "closed"]),
              DiscardedInfo)
    ELSE resetStatusBar(
             [Show(ft, PendingAppliedInfo)
                EXCEPT !.pc = "idle",
                       !.documents[ft.pendingEditor] = ft.pendingResult.modifiedContent,
                       !.pendingResult = NullResult, !.pendingEditor = Null,
                       !.diff = "closed"])

----------------------------------------------------------------------------
(* The machines the probe functions are run on *)

Platforms == {"linux", "win32"}

HomeOf(pl) == IF pl = "win32" THEN "C:\\Users\\u" ELSE "/home/u"
ProfileOf(pl) == IF pl = "win32" THEN "C:\\Users\\p" ELSE "/home/p"
PipxDirOf(pl) == IF pl = "win32" THEN "C:\\pipx\\bin" ELSE "/opt/pipx/bin"
UserDirOf(pl) == IF pl = "win32" THEN "C:\\Python311\\Scripts" ELSE "/opt/python/bin"

Python3Out == <<"Python ", "3", ".", "1", "1", "\n">>
Python2Out == <<"Python ", "2", ".", "7", "\n">>

NoPython == [c \in {"python3", "python", "py"} |-> Failed]
NoScripts == [c \in {"python3", "python", "py"} |-> Failed]

\* interpreter set-ups: none; python3 is Python 3; python3 answers the script
\* query but not the version query; python3 is Python 2 and python is Python 3;
\* python is Python 2 and only the py launcher is Python 3
PythonSetups(pl) ==
    LET dir == Answer(<<UserDirOf(pl), "\n">>)
    IN  { [pyVersion |-> NoPython, pyScripts |-> NoScripts],
          [pyVersion |-> [NoPython EXCEPT !["python3"] = Answer(Python3Out)],
           pyScripts |-> [NoScripts EXCEPT !["python3"] = dir]],
          [pyVersion |-> NoPython,
           pyScripts |-> [NoScripts EXCEPT !["python3"] = dir]],
          [pyVersion |-> [NoPython EXCEPT !["python3"] = Answer(Python2Out),
                                          !["python"] = Answer(Python3Out)],
           pyScripts |-> [NoScripts EXCEPT !["python"] = dir]],
          [pyVersion |-> [NoPython EXCEPT !["python"] = Answer(Python2Out),
                                          !["py"] = Answer(Python3Out)],
           pyScripts |-> [NoScripts EXCEPT !["py"] = dir]] }

PipxSetups(pl) ==
    { Failed, Answer(<<"\n">>), Answer(<<PipxDirOf(pl), "\n">>) }

CurrentBanner == <<BannerPrefix, "0", ".", "1", ".", "0">>
OutdatedBanner == <<BannerPrefix, "0", ".", "0", ".", "1">>

\* the places an executable may be found in, written out for one machine
FileUniverse(pl, homes) ==
    LET sep == IF pl = "win32" THEN "\\" ELSE "/"
        exe == IF pl = "win32" THEN "zenco.exe" ELSE "zenco"
        under(h) == IF h = "" THEN "" ELSE h \o sep
    IN  { PipxDirOf(pl) \o sep \o exe, UserDirOf(pl) \o sep \o exe, exe,
          "/opt/homebrew/bin/zenco", "/usr/local/bin/zenco" }
        \cup UNION { { under(h) \o ".local" \o sep \o "bin" \o sep \o "zenco",
                       under(h) \o ".local" \o sep \o "pipx" \o sep \o "venvs" \o sep
                           \o "zenco" \o sep \o "bin" \o sep \o "zenco",
                       under(h) \o "AppData" \o sep \o "Roaming" \o sep \o "Python"
                           \o sep \o "Scripts" \o sep \o "zenco.exe",
                       under(h) \o ".local" \o sep \o "bin" \o sep \o "zenco.exe" }
                     : h \in homes }

Homes(h, u) == IF h = "" /\ u = "" THEN {""} ELSE {h, u} \ {""}

\* a machine that differs from others in what is installed where
PathEnv(pl, h, u, b, px, py, F) ==
    [platform |-> pl, HOME |-> h, USERPROFILE |-> u,
     bareOk |-> b.bare, pathOk |-> b.path, banner |-> CurrentBanner,
     pipxBinDir |-> px, pyVersion |-> py.pyVersion, pyScripts |-> py.pyScripts,
     files |-> F, pipxOk |-> FALSE, brewOk |-> FALSE]

HelpSetups ==
    { [bare |-> TRUE, path |-> TRUE], [bare |-> FALSE, path |-> TRUE],
      [bare |-> FALSE, path |-> FALSE] }

\* a machine on which zenco answers `--help` with banner t
BannerEnv(t) ==
    [platform |-> "linux", HOME |-> HomeOf("linux"), USERPROFILE |-> "",
     bareOk |-> TRUE, pathOk |-> TRUE, banner |-> t,
     pipxBinDir |-> Failed, pyVersion |-> NoPython, pyScripts |-> NoScripts,
     files |-> {}, pipxOk |-> FALSE, brewOk |-> FALSE]

----------------------------------------------------------------------------
(* Direct calls of the probe functions *)

InitProbe ==
    /\ \/ \E pl \in Platforms :
             \E h \in {"", HomeOf(pl)}, u \in {"", ProfileOf(pl)}, b \in HelpSetups,
                px \in PipxSetups(pl), py \in PythonSetups(pl) :
                \E F \in SUBSET FileUniverse(pl, Homes(h, u)) :
                    /\ Cardinality(F) <= MaxFiles
                    /\ env = PathEnv(pl, h, u, b, px, py, F)
       \/ \E k \in 0..MaxBanner :
             \E t \in [1..k -> BannerAlphabet] : env = BannerEnv(t)
    /\ ret = [op |-> "none"]
    /\ dismissed = FALSE
    /\ flow = IdleFlow
    /\ second = IdleFlow
    /\ feature = IdleFeature

CallCheck ==
    /\ ret' = [op |-> "checkCliInstallation", val |-> checkCliInstallation(env)]
    /\ UNCHANGED <<env, dismissed, flow, second, feature>>

CallResolve ==
    /\ ret' = [op |-> "resolveZencoPath", val |-> resolveZencoPath(env)]
    /\ UNCHANGED <<env, dismissed, flow, second, feature>>

CallFindPython ==
    /\ ret' = [op |-> "findPython", val |-> findPython(env)]
    /\ UNCHANGED <<env, dismissed, flow, second, feature>>

NextProbe == CallCheck \/ CallResolve \/ CallFindPython

SpecProbe == InitProbe /\ [][NextProbe]_vars

----------------------------------------------------------------------------
(* Direct calls of compareVersions *)

\* most components of a version text
MaxParts == 4

\* components that are runs of digits
DigitComponents ==
    { <<"0">>, <<"1">>, <<"2">>, <<"3">>, <<"9">>, <<"1", "0">> }

\* components that are no runs of digits: empty, not numeric, signed, in
\* base 16, with whitespace around; versions made of them are one component
\* shorter than the longest
OddComponents ==
    { <<>>, <<"x">>, <<"1", "x">>, <<"-", "1">>, <<"0", "x", "1">>, <<" ", "1">> }

\* Array.prototype.join('.') of component texts
RECURSIVE JoinDots(_)
JoinDots(parts) ==
    IF Len(parts) = 1 THEN parts[1]
    ELSE parts[1] \o <<".">> \o JoinDots(Tail(parts))

\* the versions compareVersions is called against
ReferenceVersions ==
    { <<<<"1">>, <<"2">>, <<"3">>>>, <<<<"0">>, <<"2">>, <<"0">>>>,
      <<<<"1">>, <<"9">>, <<"9">>>>, <<<<"1">>, <<"2">>, <<"0">>>>,
      <<<<"0">>, <<"1">>, <<"0">>>>, <<<<"1">>, <<"2">>>>,
      <<<<"1">>, <<"2">>, <<"3">>, <<"9">>>>, <<<<>>>>,
      <<<<"x">>, <<"1">>>>, <<<<"1">>, <<"-", "1">>, <<"0">>>> }

InitCompare ==
    /\ env = BannerEnv(<<>>)
    /\ \E parts1 \in UNION ({[1..k -> DigitComponents] : k \in 1..MaxParts}
                    \cup {[1..k -> OddComponents \cup {<<"1">>}] : k \in 1..(MaxParts - 1)}),
          parts2 \in ReferenceVersions :
             ret = [op |-> "none", parts1 |-> parts1, parts2 |-> parts2]
    /\ dismissed = FALSE
    /\ flow = IdleFlow
    /\ second = IdleFlow
    /\ feature = IdleFeature

\* compareVersions(v1, v2)
CallCompare ==
    /\ ret.op = "none"
    /\ ret' = [op |-> "compareVersions", parts1 |-> ret.parts1, parts2 |-> ret.parts2,
               val |-> compareVersions(JoinDots(ret.parts1), JoinDots(ret.parts2))]
    /\ UNCHANGED <<env, dismissed, flow, second, feature>>

\* compareVersions(v2, v1), after compareVersions(v1, v2)
CallCompareBack ==
    /\ ret.op = "compareVersions"
    /\ ret' = [op |-> "compareVersions twice", parts1 |-> ret.parts1,
               parts2 |-> ret.parts2, val |-> ret.val,
               back |-> compareVersions(JoinDots(ret.parts2), JoinDots(ret.parts1))]
    /\ UNCHANGED <<env, dismissed, flow, second, feature>>

NextCompare == CallCompare \/ CallCompareBack

SpecCompare == InitCompare /\ [][NextCompare]_vars

----------------------------------------------------------------------------
(* The extension at work: commands, prompts answered, timers, and a machine *)
(* that changes under the user's hands                                      *)

LocalBin == "/home/u/.local/bin/zenco"

\* zenco on the machine: absent; on PATH and outdated; on PATH and current;
\* installed off PATH; installed off PATH and not running
ZencoSetups ==
    { [bareOk |-> FALSE, pathOk |-> TRUE, banner |-> CurrentBanner, files |-> {}],
      [bareOk |-> TRUE, pathOk |-> TRUE, banner |-> OutdatedBanner, files |-> {}],
      [bareOk |-> TRUE, pathOk |-> TRUE, banner |-> CurrentBanner, files |-> {}],
      [bareOk |-> FALSE, pathOk |-> TRUE, banner |-> CurrentBanner, files |-> {LocalBin}],
      [bareOk |-> FALSE, pathOk |-> FALSE, banner |-> CurrentBanner, files |-> {LocalBin}] }

InterpreterSetups ==
    { [pyVersion |-> NoPython, pyScripts |-> NoScripts],
      [pyVersion |-> [NoPython EXCEPT !["python3"] = Answer(Python3Out)],
       pyScripts |-> NoScripts] }

InstallEnv(z, py, pipx, brew) ==
    [platform |-> "linux", HOME |-> HomeOf("linux"), USERPROFILE |-> "",
     bareOk |-> z.bareOk, pathOk |-> z.pathOk, banner |-> z.banner,
     pipxBinDir |-> Failed, pyVersion |-> py.pyVersion, pyScripts |-> py.pyScripts,
     files |-> z.files, pipxOk |-> pipx, brewOk |-> brew]

Init ==
    /\ \E z \in ZencoSetups, py \in InterpreterSetups, pipx \in BOOLEAN, brew \in BOOLEAN :
          env = InstallEnv(z, py, pipx, brew)
    /\ ret = [op |-> "none"]
    /\ dismissed \in BOOLEAN
    /\ flow = IdleFlow
    /\ second = IdleFlow
    /\ feature = IdleFeature

\* something is installed on the machine or removed from it
EnvChange ==
    /\ \/ \E z \in ZencoSetups :
             env' = [env EXCEPT !.bareOk = z.bareOk, !.pathOk = z.pathOk,
                                !.banner = z.banner, !.files = z.files]
       \/ \E py \in InterpreterSetups :
             env' = [env EXCEPT !.pyVersion = py.pyVersion, !.pyScripts = py.pyScripts]
       \/ env' = [env EXCEPT !.pipxOk = ~@]
       \/ env' = [env EXCEPT !.brewOk = ~@]
    /\ env' # env
    /\ UNCHANGED <<ret, dismissed, flow, second, feature>>

\* activate(): ensureCliInstalled(context, false), once
Activate ==
    /\ flow.pc = "idle"
    /\ flow' = ensureCliInstalled([IdleFlow EXCEPT !.caller = "activate"], env, dismissed, FALSE)
    /\ UNCHANGED <<env, ret, dismissed, second, feature>>

\* the command 'zenco-vscode.installCli': ensureCliInstalled(context, true)
InstallCliCommand ==
    /\ flow.pc \in {"idle", "done"}
    /\ flow' = ensureCliInstalled([IdleFlow EXCEPT !.caller = "zenco-vscode.installCli"],
                                  env, dismissed, TRUE)
    /\ UNCHANGED <<env, ret, dismissed, second, feature>>

\* the command 'zenco-vscode.checkCli'
CheckCliCommand ==
    /\ flow.pc \in {"idle", "done"}
    /\ flow' = checkCli([IdleFlow EXCEPT !.caller = "zenco-vscode.checkCli"], env)
    /\ UNCHANGED <<env, ret, dismissed, second, feature>>

AnswerCheckCliPrompt ==
    /\ flow.pc = "checkCliPrompt"
    /\ \E choice \in {"Install Now", "Manual Instructions", Undefined} :
          flow' = IF choice = "Install Now"
                  THEN ensureCliInstalled([flow EXCEPT !.asked = "unasked"], env, dismissed, TRUE)
                  ELSE [flow EXCEPT !.pc = "done"]
    /\ UNCHANGED <<env, ret, dismissed, second, feature>>

AnswerUpgradePrompt ==
    /\ flow.pc = "upgradePrompt"
    /\ \E choice \in {"Upgrade", "Later", "Manual Instructions", Undefined}, opens \in BOOLEAN :
          flow' = OnUpgradeChoice(flow, env, choice, opens)
    /\ UNCHANGED <<env, ret, dismissed, second, feature>>

AnswerInstallPrompt ==
    /\ flow.pc = "installPrompt"
    /\ \E choice \in {"Install", "Manual Instructions", "Don't Show Again", Undefined},
          opens \in BOOLEAN :
          /\ flow' = OnInstallChoice(flow, env, choice, opens)
          /\ dismissed' = DismissedAfterChoice(dismissed, choice)
    /\ UNCHANGED <<env, ret, second, feature>>

AnswerBootstrapPrompt ==
    /\ flow.pc = "bootstrapPrompt"
    /\ \E choice \in {"Install pipx", "Try fallback (pip --user)", Undefined} :
          flow' = OnBootstrapChoice(flow, env, choice)
    /\ UNCHANGED <<env, ret, dismissed, second, feature>>

\* installPipx's setTimeout fires and shows 'Is pipx installation complete?'
PipxTimer ==
    /\ flow.pc = "pipxTimer"
    /\ flow' = [flow EXCEPT !.pc = "pipxConfirm"]
    /\ UNCHANGED <<env, ret, dismissed, second, feature>>

AnswerPipxConfirm ==
    /\ flow.pc = "pipxConfirm"
    /\ \E choice \in {"Yes, Continue", "No, Failed", Undefined} :
          flow' = OnPipxConfirm(flow, env, choice)
    /\ UNCHANGED <<env, ret, dismissed, second, feature>>

\* installCli's setTimeout fires and shows the verification prompt
SettleTimer ==
    /\ flow.pc = "settleTimer"
    /\ flow' = [flow EXCEPT !.pc = "verifyPrompt"]
    /\ UNCHANGED <<env, ret, dismissed, second, feature>>

AnswerVerifyPrompt ==
    /\ flow.pc = "verifyPrompt"
    /\ \E choice \in {"Verify Installation", "Show Manual Instructions", Undefined},
          opens \in BOOLEAN :
          /\ flow' = OnVerifyChoice(flow, env, choice, opens)
          /\ dismissed' = DismissedAfterInstall(dismissed, flow')
    /\ UNCHANGED <<env, ret, second, feature>>

\* the PATH-refresh hint of validatePath is answered or dismissed
AnswerHint ==
    /\ flow.hint = "shown"
    /\ \E choice \in {"Show Help", Undefined}, opens \in BOOLEAN :
          flow' = IF choice = "Show Help"
                  THEN [showManualInstallInstructions(flow, opens) EXCEPT !.hint = "answered"]
                  ELSE [flow EXCEPT !.hint = "answered"]
    /\ UNCHANGED <<env, ret, dismissed, second, feature>>

Next ==
    \/ EnvChange
    \/ Activate
    \/ InstallCliCommand
    \/ CheckCliCommand
    \/ AnswerCheckCliPrompt
    \/ AnswerUpgradePrompt
    \/ AnswerInstallPrompt
    \/ AnswerBootstrapPrompt
    \/ PipxTimer
    \/ AnswerPipxConfirm
    \/ SettleTimer
    \/ AnswerVerifyPrompt
    \/ AnswerHint

Spec == Init /\ [][Next]_vars

\* Spec with every prompt of installCli eventually answered or dismissed and
\* every timer firing
SpecAnswered ==
    /\ Spec
    /\ WF_vars(AnswerBootstrapPrompt)
    /\ WF_vars(PipxTimer)
    /\ WF_vars(AnswerPipxConfirm)
    /\ WF_vars(SettleTimer)
    /\ WF_vars(AnswerVerifyPrompt)

----------------------------------------------------------------------------
(* Commands triggered while a flow is suspended.  Nothing in activate(), in  *)
(* the command handlers or in ensureCliInstalled records that a flow is in   *)
(* progress, so a command run while flow waits at a prompt or a timer starts *)
(* another invocation, here second, on the same machine and the same         *)
(* dismissal flag.                                                           *)

\* an ensureCliInstalled / installCli invocation that has not returned
InProgress(f) ==
    f.pc \in {"installPrompt", "upgradePrompt", "bootstrapPrompt", "pipxTimer",
              "pipxConfirm", "settleTimer", "verifyPrompt"}

\* a handler waiting on a prompt or a timer
Suspended(f) == InProgress(f) \/ f.pc = "checkCliPrompt"

InitOverlap ==
    /\ \E z \in ZencoSetups :
          /\ z.files = {}
          /\ z.banner = CurrentBanner => ~z.bareOk
          /\ env = InstallEnv(z, [pyVersion |-> [NoPython EXCEPT !["python3"] = Answer(Python3Out)],
                                  pyScripts |-> NoScripts], FALSE, FALSE)
    /\ ret = [op |-> "none"]
    /\ dismissed = FALSE
    /\ flow = IdleFlow
    /\ second = IdleFlow
    /\ feature = IdleFeature

\* 'zenco-vscode.installCli' run while flow is suspended
OverlapInstallCliCommand ==
    /\ Suspended(flow)
    /\ second.pc \in {"idle", "done"}
    /\ second' = ensureCliInstalled([IdleFlow EXCEPT !.caller = "zenco-vscode.installCli"],
                                    env, dismissed, TRUE)
    /\ UNCHANGED <<env, ret, dismissed, flow, feature>>

\* 'zenco-vscode.checkCli' run while flow is suspended
OverlapCheckCliCommand ==
    /\ Suspended(flow)
    /\ second.pc \in {"idle", "done"}
    /\ second' = checkCli([IdleFlow EXCEPT !.caller = "zenco-vscode.checkCli"], env)
    /\ UNCHANGED <<env, ret, dismissed, flow, feature>>

OverlapAnswerCheckCliPrompt ==
    /\ second.pc = "checkCliPrompt"
    /\ \E choice \in {"Install Now", "Manual Instructions", Undefined} :
          second' = IF choice = "Install Now"
                    THEN ensureCliInstalled([second EXCEPT !.asked = "unasked"],
                                            env, dismissed, TRUE)
                    ELSE [second EXCEPT !.pc = "done"]
    /\ UNCHANGED <<env, ret, dismissed, flow, feature>>

OverlapAnswerUpgradePrompt ==
    /\ second.pc = "upgradePrompt"
    /\ \E choice \in {"Upgrade", "Later", "Manual Instructions", Undefined}, opens \in BOOLEAN :
          second' = OnUpgradeChoice(second, env, choice, opens)
    /\ UNCHANGED <<env, ret, dismissed, flow, feature>>

OverlapAnswerInstallPrompt ==
    /\ second.pc = "installPrompt"
    /\ \E choice \in {"Install", "Manual Instructions", "Don't Show Again", Undefined},
          opens \in BOOLEAN :
          /\ second' = OnInstallChoice(second, env, choice, opens)
          /\ dismissed' = DismissedAfterChoice(dismissed, choice)
    /\ UNCHANGED <<env, ret, flow, feature>>

OverlapAnswerBootstrapPrompt ==
    /\ second.pc = "bootstrapPrompt"
    /\ \E choice \in {"Install pipx", "Try fallback (pip --user)", Undefined} :
          second' = OnBootstrapChoice(second, env, choice)
    /\ UNCHANGED <<env, ret, dismissed, flow, feature>>

OverlapPipxTimer ==
    /\ second.pc = "pipxTimer"
    /\ second' = [second EXCEPT !.pc = "pipxConfirm"]
    /\ UNCHANGED <<env, ret, dismissed, flow, feature>>

OverlapAnswerPipxConfirm ==
    /\ second.pc = "pipxConfirm"
    /\ \E choice \in {"Yes, Continue", "No, Failed", Undefined} :
          second' = OnPipxConfirm(second, env, choice)
    /\ UNCHANGED <<env, ret, dismissed, flow, feature>>

OverlapSettleTimer ==
    /\ second.pc = "settleTimer"
    /\ second' = [second EXCEPT !.pc = "verifyPrompt"]
    /\ UNCHANGED <<env, ret, dismissed, flow, feature>>

OverlapAnswerVerifyPrompt ==
    /\ second.pc = "verifyPrompt"
    /\ \E choice \in {"Verify Installation", "Show Manual Instructions", Undefined},
          opens \in BOOLEAN :
          /\ second' = OnVerifyChoice(second, env, choice, opens)
          /\ dismissed' = DismissedAfterInstall(dismissed, second')
    /\ UNCHANGED <<env, ret, flow, feature>>

OverlapAnswerHint ==
    /\ second.hint = "shown"
    /\ \E choice \in {"Show Help", Undefined}, opens \in BOOLEAN :
          second' = IF choice = "Show Help"
                    THEN [showManualInstallInstructions(second, opens) EXCEPT !.hint = "answered"]
                    ELSE [second EXCEPT !.hint = "answered"]
    /\ UNCHANGED <<env, ret, dismissed, flow, feature>>

NextOverlap ==
    \/ Activate
    \/ InstallCliCommand
    \/ CheckCliCommand
    \/ AnswerCheckCliPrompt
    \/ AnswerUpgradePrompt
    \/ AnswerInstallPrompt
    \/ AnswerBootstrapPrompt
    \/ PipxTimer
    \/ AnswerPipxConfirm
    \/ SettleTimer
    \/ AnswerVerifyPrompt
    \/ AnswerHint
    \/ OverlapInstallCliCommand
    \/ OverlapCheckCliCommand
    \/ OverlapAnswerCheckCliPrompt
    \/ OverlapAnswerUpgradePrompt
    \/ OverlapAnswerInstallPrompt
    \/ OverlapAnswerBootstrapPrompt
    \/ OverlapPipxTimer
    \/ OverlapAnswerPipxConfirm
    \/ OverlapSettleTimer
    \/ OverlapAnswerVerifyPrompt
    \/ OverlapAnswerHint

SpecOverlap == InitOverlap /\ [][NextOverlap]_vars

----------------------------------------------------------------------------
(* Feature commands at work *)

InitFeature ==
    /\ \E z \in ZencoSetups :
          env = InstallEnv(z, [pyVersion |-> [NoPython EXCEPT !["python3"] = Answer(Python3Out)],
                               pyScripts |-> NoScripts], FALSE, FALSE)
    /\ ret = [op |-> "none"]
    /\ dismissed \in BOOLEAN
    /\ flow = IdleFlow
    /\ second = IdleFlow
    /\ feature = IdleFeature

\* the settings the feature commands run under: the defaults with an API key
\* and without one
FeatureConfigs ==
    { ZencoConfig("groq", "k1", "", "google", "llm"),
      ZencoConfig("groq", "", "", "google", "llm") }

\* a feature command such as 'zenco-vscode.refactorFile'
FeatureCommand ==
    /\ feature.pc = "idle"
    /\ \E name \in Features, activeEditor \in Editors \cup {Null} :
          feature' = runZencoFeature(feature, name, activeEditor)
    /\ UNCHANGED <<env, ret, dismissed, flow, second>>

AnswerQuickPick ==
    /\ feature.pc = "quickPick"
    /\ \E choice \in {"Preview Changes (Diff)", "Apply Changes", Undefined} :
          feature' = OnQuickPick(feature, choice)
    /\ UNCHANGED <<env, ret, dismissed, flow, second>>

\* the feature function resolves and the withProgress callback goes on
FeatureResult ==
    /\ feature.pc = "running"
    /\ \E config \in FeatureConfigs, run \in CliRuns(feature.name, feature.editor) :
          feature' = OnFeatureResult(feature, env, config, run)
    /\ UNCHANGED <<env, ret, dismissed, flow, second>>

ApplyPendingCommand ==
    /\ feature.pc = "idle"
    /\ feature' = applyPending(feature)
    /\ UNCHANGED <<env, ret, dismissed, flow, second>>

AnswerApplyPick ==
    /\ feature.pc = "applyPick"
    /\ \E choice \in {"apply", "discard", Undefined} :
          feature' = OnApplyPick(feature, choice)
    /\ UNCHANGED <<env, ret, dismissed, flow, second>>

NextFeature ==
    \/ Activate
    \/ FeatureCommand
    \/ AnswerQuickPick
    \/ FeatureResult
    \/ ApplyPendingCommand
    \/ AnswerApplyPick

SpecFeature == InitFeature /\ [][NextFeature]_vars

----------------------------------------------------------------------------
(* Direct calls of runZencoCommand *)

\* the settings runZencoCommand is called under
Configs ==
    { ZencoConfig(provider, apiKey, model, style, strategy) :
        provider \in {"groq", "openai", "anthropic", "gemini", ""},
        apiKey \in {"", "k1", "k2"},
        model \in {"", "m", "groq", "--json"},
        style \in {"google", "numpy"},
        strategy \in {"llm", "rules"} }

InitRunner ==
    /\ \E z \in ZencoSetups :
          env = InstallEnv(z, [pyVersion |-> NoPython, pyScripts |-> NoScripts], FALSE, FALSE)
    /\ \E name \in Features, config \in Configs :
          \E run \in CliRuns(name, "a.py") :
             ret = [op |-> "none", name |-> name, file |-> "a.py",
                    config |-> config, run |-> run]
    /\ dismissed = FALSE
    /\ flow = IdleFlow
    /\ second = IdleFlow
    /\ feature = IdleFeature

\* runZencoCommand(filePath, options)
CallRunZencoCommand ==
    /\ ret.op = "none"
    /\ ret' = [op |-> "runZencoCommand", name |-> ret.name, file |-> ret.file,
               config |-> ret.config, run |-> ret.run,
               val |-> runZencoCommand(env, ret.name, ret.file, ret.config, ret.run)]
    /\ UNCHANGED <<env, dismissed, flow, second, feature>>

NextRunner == CallRunZencoCommand

SpecRunner == InitRunner /\ [][NextRunner]_vars

----------------------------------------------------------------------------
(* DiffViewer: the content provider of the scheme zenco-diff *)

\* file names as texts of symbols; `%20` is the escape of a space and `%23`
\* the escape of `#`, each taken as one symbol
FileNames ==
    { <<"b">>, <<"a", " ">>, <<"a", "%20">>, <<"a", "#", "b">> }

Contents == {"", "v1"}

\* percentDecode of vscode.Uri.parse
PercentDecode(text) ==
    [i \in 1..Len(text) |->
        IF text[i] = "%20" THEN " " ELSE IF text[i] = "%23" THEN "#" ELSE text[i]]

\* the encoding of a component by Uri.toString
PercentEncode(text) ==
    [i \in 1..Len(text) |->
        IF text[i] = " " THEN "%20" ELSE IF text[i] = "#" THEN "%23" ELSE text[i]]

\* vscode.Uri.parse(`zenco-diff:<kind>/<fileName>`): the path ends at the
\* first `#`, what follows is the fragment; both are decoded
UriParse(kind, fileName) ==
    LET marks == {i \in 1..Len(fileName) : fileName[i] = "#"}
        cut == IF marks = {} THEN Len(fileName) + 1
               ELSE CHOOSE i \in marks : \A j \in marks : i <= j
    IN  [scheme |-> "zenco-diff",
         path |-> <<kind, "/">> \o PercentDecode(SubSeq(fileName, 1, cut - 1)),
         fragment |-> PercentDecode(SubSeq(fileName, cut + 1, Len(fileName)))]

\* Uri.toString()
UriToString(uri) ==
    <<uri.scheme, ":">> \o PercentEncode(uri.path)
        \o (IF uri.fragment = <<>> THEN <<>> ELSE <<"#">> \o PercentEncode(uri.fragment))

\* contentMap.set(key, content)
MapSet(map, key, content) ==
    {e \in map : e.key # key} \cup {[key |-> key, content |-> content]}

\* provideTextDocumentContent(uri): contentMap.get(uri.toString()) || ''
provideTextDocumentContent(map, uri) ==
    IF \E e \in map : e.key = UriToString(uri)
    THEN (CHOOSE e \in map : e.key = UriToString(uri)).content
    ELSE ""

\* the contentMap after showDiff(originalContent, modifiedContent, fileName)
showDiff(map, originalContent, modifiedContent, fileName) ==
    MapSet(MapSet(map, UriToString(UriParse("original", fileName)), originalContent),
           UriToString(UriParse("modified", fileName)), modifiedContent)

NoPreview == [shown |-> FALSE, original |-> "", modified |-> ""]

\* a new DiffViewer; latest keeps, for each file name, the arguments of the
\* last showDiff made with it
InitDiff ==
    /\ env = BannerEnv(<<>>)
    /\ ret = [op |-> "DiffViewer", contentMap |-> {},
              latest |-> [f \in FileNames |-> NoPreview],
              provided |-> <<>>]
    /\ dismissed = FALSE
    /\ flow = IdleFlow
    /\ second = IdleFlow
    /\ feature = IdleFeature

ShowDiff ==
    /\ \E f \in FileNames, o \in Contents, m \in Contents :
          ret' = [ret EXCEPT !.contentMap = showDiff(@, o, m, f),
                             !.latest[f] = [shown |-> TRUE, original |-> o, modified |-> m],
                             !.provided = <<>>]
    /\ UNCHANGED <<env, dismissed, flow, second, feature>>

\* VS Code reads one of the virtual documents
ProvideContent ==
    /\ \E kind \in {"original", "modified"}, f \in FileNames :
          ret' = [ret EXCEPT !.provided =
                     <<kind, f, provideTextDocumentContent(ret.contentMap, UriParse(kind, f))>>]
    /\ UNCHANGED <<env, dismissed, flow, second, feature>>

NextDiff == ShowDiff \/ ProvideContent

SpecDiff == InitDiff /\ [][NextDiff]_vars

----------------------------------------------------------------------------
(* Properties of the probe functions, checked under SpecProbe *)

\* the probe `<path> --help` of checkCliInstallation succeeds on this machine
ProbeAnswers == ExecHelp(env, resolveZencoPath(env)).ok

Checked == ret.op = "checkCliInstallation"
Resolved == ret.op = "resolveZencoPath"

\* C1: checkCliInstallation never raises; when the probe `<path> --help`
\* fails it returns exactly installed = false and a non-empty resolvedPath,
\* with no version and no needsUpgrade.
CheckFailureCollapses ==
    Checked =>
        /\ "installed" \in DOMAIN ret.val
        /\ ~ProbeAnswers =>
              /\ DOMAIN ret.val = {"installed", "resolvedPath"}
              /\ ret.val.installed = FALSE
              /\ ret.val.resolvedPath # ""

\* a failed probe of an executable that was found on disk
CheckFailureSeen ==
    /\ Checked /\ ~ProbeAnswers
    /\ ret.val.installed = FALSE
    /\ ret.val.resolvedPath \in env.files

\* the number a text of digits writes
RECURSIVE Written(_)
Written(d) ==
    IF Len(d) = 0 THEN 0
    ELSE 10 * Written(SubSeq(d, 1, Len(d) - 1)) + (IF d[Len(d)] = "1" THEN 1 ELSE 0)

AllDigits(s, lo, hi) == lo <= hi /\ \A k \in lo..hi : s[k] \in Digits

\* banner s holds the prefix at i, then digits up to a, a dot, digits up to
\* b, a dot, and digits up to c
TokenSpan(s, i, a, b, c) ==
    /\ s[i] = BannerPrefix
    /\ AllDigits(s, i + 1, a) /\ s[a + 1] = "."
    /\ AllDigits(s, a + 2, b) /\ s[b + 1] = "."
    /\ AllDigits(s, b + 2, c)

SomeTokenAt(s, i) ==
    \E a \in (i + 1)..Len(s) : \E b \in (a + 2)..Len(s) : \E c \in (b + 2)..Len(s) :
        TokenSpan(s, i, a, b, c)

\* the token at i is the banner's first, and c ends its last number
FirstWholeToken(s, i, a, b, c) ==
    /\ TokenSpan(s, i, a, b, c)
    /\ c < Len(s) => s[c + 1] \notin Digits
    /\ \A j \in 1..(i - 1) : ~SomeTokenAt(s, j)

\* (a, b, c) is lower than 0.1.0, the minimum required version
BelowMinimum(a, b, c) == a < 0 \/ (a = 0 /\ b < 1) \/ (a = 0 /\ b = 1 /\ c < 0)

\* C2: when the `--help` output holds a token `Zenco AI vX.Y.Z`, check()
\* returns installed = true, version = X.Y.Z and needsUpgrade = true exactly
\* when X.Y.Z is lower than 0.1.0; and in every result needsUpgrade = true
\* implies installed = true.
CheckReadsVersion ==
    Checked =>
        /\ ("needsUpgrade" \in DOMAIN ret.val /\ ret.val.needsUpgrade) => ret.val.installed
        /\ ProbeAnswers =>
             \A i \in 1..Len(env.banner) :
               \A a \in (i + 1)..Len(env.banner) : \A b \in (a + 2)..Len(env.banner) :
                 \A c \in (b + 2)..Len(env.banner) :
                   FirstWholeToken(env.banner, i, a, b, c) =>
                      /\ ret.val.installed
                      /\ ret.val.version = SubSeq(env.banner, i + 1, c)
                      /\ ret.val.needsUpgrade
                           = BelowMinimum(Written(SubSeq(env.banner, i + 1, a)),
                                          Written(SubSeq(env.banner, a + 2, b)),
                                          Written(SubSeq(env.banner, b + 2, c)))

\* the banner "Zenco AI v0.0.1" was read as an outdated installation
CheckReadsVersionSeen ==
    /\ Checked
    /\ env.banner = OutdatedBanner
    /\ ret.val.installed /\ ret.val.needsUpgrade
    /\ ret.val.version = <<"0", ".", "0", ".", "1">>

\* C3: when the probe succeeds and its output holds no version token,
\* check() returns installed = true, version = "unknown", needsUpgrade =
\* false; a responsive executable is never reported as not installed.
CheckUnknownVersion ==
    (Checked /\ ProbeAnswers) =>
        /\ ret.val.installed
        /\ (\A i \in 1..Len(env.banner) : ~SomeTokenAt(env.banner, i)) =>
              ret.val = [installed |-> TRUE, version |-> Unknown,
                         needsUpgrade |-> FALSE, resolvedPath |-> ret.val.resolvedPath]

\* a banner that stops short of a full version was read as "unknown"
CheckUnknownVersionSeen ==
    /\ Checked
    /\ env.banner = <<BannerPrefix, "0", ".", "1">>
    /\ ret.val.installed /\ ret.val.version = Unknown /\ ~ret.val.needsUpgrade

\* C4: resolveZencoPath returns a non-empty string on every machine, also
\* when every strategy fails.
ResolveTotal == Resolved => ret.val # ""

EveryStrategyFails ==
    /\ ~env.bareOk /\ ~env.pipxBinDir.ok
    /\ \A c \in DOMAIN env.pyScripts : ~env.pyScripts[c].ok
    /\ env.files = {} /\ env.HOME = "" /\ env.USERPROFILE = ""

\* resolution fell through every strategy to the bare name
ResolveTotalSeen == Resolved /\ EveryStrategyFails /\ ret.val = "zenco"

\* what each strategy offers on this machine
BareSucceeds == env.bareOk
PipxOffers == env.pipxBinDir.ok /\ PipxCandidate(env) \in env.files
UserScriptsOffer == UserScriptsCandidate(env).ok /\ UserScriptsCandidate(env).path \in env.files
CommonHits == {i \in 1..Len(commonPaths(env)) : commonPaths(env)[i] \in env.files}

\* C5: resolve() returns the first success in strict priority order: the
\* bare name, the pipx bin-directory path, the Python user-scripts path, the
\* first existing fixed path in listed order, else the bare name.
ResolvePriority ==
    Resolved =>
        /\ BareSucceeds => ret.val = "zenco"
        /\ (~BareSucceeds /\ PipxOffers) => ret.val = PipxCandidate(env)
        /\ (~BareSucceeds /\ ~PipxOffers /\ UserScriptsOffer) =>
              ret.val = UserScriptsCandidate(env).path
        /\ (~BareSucceeds /\ ~PipxOffers /\ ~UserScriptsOffer /\ CommonHits # {}) =>
              /\ \E i \in CommonHits : ret.val = commonPaths(env)[i]
              /\ \A i \in CommonHits : \A j \in 1..(i - 1) :
                    ret.val = commonPaths(env)[i] => j \notin CommonHits
        /\ (~BareSucceeds /\ ~PipxOffers /\ ~UserScriptsOffer /\ CommonHits = {}) =>
              ret.val = "zenco"

\* the user-scripts path won over an existing fixed path, after the pipx
\* query had answered with a directory that does not hold the executable
ResolvePrioritySeen ==
    /\ Resolved
    /\ ~BareSucceeds /\ env.pipxBinDir.ok /\ ~PipxOffers
    /\ UserScriptsOffer /\ CommonHits # {}
    /\ ret.val = UserScriptsCandidate(env).path
    /\ ret.val \notin {commonPaths(env)[i] : i \in CommonHits}

\* the version query of cmd succeeds and its output holds `Python 3`
AnswersPython3(cmd) ==
    /\ env.pyVersion[cmd].ok
    /\ \E i \in 1..(Len(env.pyVersion[cmd].stdout) - 1) :
          /\ env.pyVersion[cmd].stdout[i] = "Python "
          /\ env.pyVersion[cmd].stdout[i + 1] = "3"

----------------------------------------------------------------------------
(* Properties of the install flow, checked under Spec *)

Last(q) == q[Len(q)]

PipxCommands == {"pipx install zenco", "pipx upgrade zenco"}
PipUserCommands(pythonCmd) ==
    { pythonCmd \o " -m pip install --user zenco",
      pythonCmd \o " -m pip install --user zenco --upgrade" }

\* the install command this flow sent, if it sent one
InstallSent == flow.builtWith # "none"
SentCommand == Last(flow.terminals).sent[1]

\* C6: when installCli builds the install command the method is never
\* 'pipx-missing': every path through the bootstrap handling has resolved it,
\* and the command built is the pipx command or the pip --user command.
MethodResolvedBeforeBuild ==
    /\ flow.builtWith \in {"none", "pipx", "pip-user"}
    /\ (flow.bootstrap # "unasked" /\ flow.pc \notin {"pipxTimer", "pipxConfirm"}) => InstallSent
    /\ InstallSent =>
          /\ flow.builtWith = "pipx" => SentCommand \in PipxCommands
          /\ flow.builtWith = "pip-user" => SentCommand \in PipUserCommands(flow.pythonCmd)

\* the command was built after a dismissed bootstrap prompt
MethodResolvedSeen ==
    /\ flow.bootstrap = Undefined
    /\ flow.builtWith = "pip-user"
    /\ SentCommand = "python3 -m pip install --user zenco"

\* C7: installCli returns true only if the user chose to verify and the
\* re-invoked probe reported installed = true; if the user chose to verify
\* and the probe reports not installed, the PATH-refresh hint is shown and
\* installCli returns false.
VerifiedOnlyByProbe ==
    /\ flow.cliResult = "true" =>
          /\ flow.verify = "Verify Installation"
          /\ Len(flow.probes) >= 3
          /\ flow.probes[Len(flow.probes) - 1].installed
    /\ (flow.verify = "Verify Installation" /\ ~Last(flow.probes).installed) =>
          /\ PathHint \in flow.infos
          /\ flow.cliResult = "false"

\* installCli returned true after a verification that found the CLI
VerifiedSeen ==
    /\ flow.cliResult = "true"
    /\ flow.verify = "Verify Installation"
    /\ ~flow.probes[1].installed
    /\ Last(flow.probes).installed

\* C8: when the selector returns 'pipx-missing' and the user cancels the
\* bootstrap prompt, the flow ends abandoned: no terminal is opened, no
\* install command is sent and no error is reported.
BootstrapCancelAbandons ==
    flow.bootstrap = Undefined =>
        /\ flow.pc = "done"
        /\ flow.terminals = <<>>
        /\ flow.errors = {}

\* the user cancels the not-installed prompt, the upgrade prompt or the
\* verification prompt in this step
Cancelling ==
    \/ flow.pc = "installPrompt" /\ flow'.pc # "installPrompt" /\ flow'.asked = Undefined
    \/ flow.pc = "upgradePrompt" /\ flow'.pc # "upgradePrompt"
                                 /\ flow'.asked \in {"Later", Undefined}
    \/ flow.pc = "verifyPrompt" /\ flow'.pc # "verifyPrompt" /\ flow'.verify = Undefined

\* C9: cancelling the not-installed prompt, the upgrade prompt (dismiss or
\* 'Later') or the verification prompt ends the flow with result false; no
\* command is sent to a terminal, no probe is run, the dismissal flag keeps
\* its value and no error message is shown.
CancelEndsSilently ==
    [][ Cancelling =>
          /\ flow'.pc = "done" /\ flow'.result = "false"
          /\ flow'.terminals = flow.terminals
          /\ flow'.probes = flow.probes /\ flow'.pipxProbes = flow.pipxProbes
          /\ dismissed' = dismissed
          /\ flow'.errors = flow.errors /\ flow'.manual = flow.manual ]_vars

\* a flow ended by cancelling the verification prompt, its command sent
CancelSeen ==
    /\ flow.pc = "done" /\ flow.result = "false"
    /\ flow.verify = Undefined
    /\ InstallSent /\ flow.errors = {}

\* the pipx bootstrap was confirmed and pipx answered the second probe
Bootstrapped == flow.confirm = "Yes, Continue" /\ Last(flow.pipxProbes)

\* C10: during the pipx bootstrap pipx is probed again only after the user
\* answers 'Yes, Continue'; in every other outcome ('No, Failed', dismissal,
\* a failed second probe) the method becomes pip --user and the flow goes on
\* to send the pip --user install command instead of ending there.
BootstrapFallsBack ==
    /\ Len(flow.pipxProbes) <= 2
    /\ Len(flow.pipxProbes) = 2 => flow.confirm = "Yes, Continue"
    /\ flow.confirm = "Yes, Continue" => Len(flow.pipxProbes) = 2
    /\ (flow.confirm # "unasked" /\ ~Bootstrapped) =>
          /\ flow.builtWith = "pip-user"
          /\ Len(flow.terminals) = 2
          /\ SentCommand \in PipUserCommands(flow.pythonCmd)
          /\ flow.pc \in {"settleTimer", "verifyPrompt", "done"}
          /\ flow.pc = "done" => flow.verify # "unasked"

\* the second probe failed after 'Yes, Continue' and pip --user was used
BootstrapFallbackSeen ==
    /\ flow.confirm = "Yes, Continue"
    /\ Len(flow.pipxProbes) = 2 /\ ~flow.pipxProbes[2]
    /\ flow.builtWith = "pip-user"
    /\ flow.pc = "settleTimer"

\* the terminals of flow f that were sent a zenco install or upgrade command
InstallTerminals(f) ==
    { i \in 1..Len(f.terminals) :
        f.terminals[i].sent[1] \in PipxCommands \cup PipUserCommands(f.pythonCmd) }

\* C11: within one installCli invocation the zenco install or upgrade command
\* is sent to a terminal exactly once, whatever the verification outcome;
\* after a failed verification the flow sends no further install command.
InstallSentOnce ==
    /\ Cardinality(InstallTerminals(flow)) <= 1
    /\ InstallSent <=> Cardinality(InstallTerminals(flow)) = 1
    /\ flow.cliResult # "none" => InstallSent

\* verification failed, the hint was answered, and one command had been sent
InstallSentOnceSeen ==
    /\ flow.verify = "Verify Installation" /\ flow.cliResult = "false"
    /\ flow.hint = "answered"
    /\ Cardinality(InstallTerminals(flow)) = 1

\* activation or the installCli command calls ensureCliInstalled in this step
Triggered ==
    /\ flow.pc \in {"idle", "done"}
    /\ flow' # flow
    /\ flow'.caller \in {"activate", "zenco-vscode.installCli"}
    /\ flow'.hint = "none"

\* what the probe of the flow just triggered reported
AbsentNow == ~flow'.probes[1].installed
OutdatedNow == flow'.probes[1].installed /\ flow'.probes[1].needsUpgrade

\* C14 (as the code has it): with the dismissal flag true, a non-forced
\* trigger while the probe reports the CLI absent shows no prompt and returns
\* false, and a forced trigger in the same state shows the not-installed
\* prompt; while the probe reports the CLI outdated the upgrade prompt is
\* shown whatever the flag and whatever force.
DismissalSilencesInstallPrompt ==
    [][ (Triggered /\ dismissed) =>
          /\ (AbsentNow /\ ~flow'.force) =>
                 flow'.pc = "done" /\ flow'.result = "false" /\ flow'.asked = "unasked"
          /\ (AbsentNow /\ flow'.force) => flow'.pc = "installPrompt"
          /\ OutdatedNow => flow'.pc = "upgradePrompt" ]_vars

\* activation found the CLI absent with the flag set and returned unprompted
DismissalSilencesSeen ==
    /\ dismissed /\ flow.caller = "activate"
    /\ ~flow.probes[1].installed
    /\ flow.pc = "done" /\ flow.result = "false" /\ flow.asked = "unasked"

\* C14 (as stated): with the dismissal flag true, every non-forced trigger
\* while the probe reports the CLI absent or outdated makes no prompt call
\* and returns false; a forced trigger in the same state still prompts.
DismissalSilencesEveryPrompt ==
    [][ (Triggered /\ dismissed /\ (AbsentNow \/ OutdatedNow)) =>
          IF flow'.force
          THEN flow'.pc \in {"installPrompt", "upgradePrompt"}
          ELSE flow'.pc = "done" /\ flow'.result = "false" ]_vars

\* installCli returns to ensureCliInstalled in this step
InstallReturns == flow.pc = "verifyPrompt" /\ flow'.pc = "done"

\* C15: when installCli, called from the not-installed branch, returns true
\* the dismissal flag is false when ensureCliInstalled returns, also when
\* the flag was set and the trigger was forced; when installCli returns
\* false the flag is left unchanged.
InstallClearsDismissal ==
    [][ (InstallReturns /\ ~flow.upgrade) =>
          /\ flow'.result = flow'.cliResult
          /\ IF flow'.cliResult = "true" THEN ~dismissed' ELSE dismissed' = dismissed ]_vars

\* a forced flow that found the flag set installed the CLI and cleared it
InstallClearsDismissalSeen ==
    /\ flow.wasDismissed /\ flow.force
    /\ flow.asked = "Install" /\ flow.cliResult = "true" /\ flow.result = "true"
    /\ ~dismissed

\* C16: the dismissal flag is reset to false on any successful install,
\* including a successful upgrade: whenever ensureCliInstalled returns true
\* after installCli ran with upgrade = true, the dismissal flag is false.
UpgradeClearsDismissal ==
    [][ (InstallReturns /\ flow.upgrade /\ flow'.result = "true") => ~dismissed' ]_vars

\* C17: the dismissal flag changes from false to true only in a step in
\* which the user chose "Don't Show Again" at the not-installed prompt.
DismissalOnlyOnRequest ==
    [][ (~dismissed /\ dismissed') =>
          /\ flow.pc = "installPrompt"
          /\ flow'.asked = "Don't Show Again"
          /\ flow'.pc = "done" /\ flow'.result = "false" ]_vars

\* the flag was set by "Don't Show Again"
DismissalOnRequestSeen ==
    /\ dismissed /\ ~flow.wasDismissed
    /\ flow.asked = "Don't Show Again" /\ flow.pc = "done"

\* installCli ran and its selector found pipx
PipxFound == flow.pipxProbes # <<>> /\ flow.pipxProbes[1]

\* C18: when pipx is available the selected method is pipx, no bootstrap
\* prompt is shown, and the command sent to the terminal is exactly
\* `pipx install zenco` when upgrade = false and `pipx upgrade zenco` when
\* upgrade = true.
PipxAvailableUsesPipx ==
    PipxFound =>
        /\ flow.method = "pipx" /\ flow.builtWith = "pipx"
        /\ flow.bootstrap = "unasked" /\ flow.confirm = "unasked"
        /\ Len(flow.terminals) = 1
        /\ flow.terminals[1].name = "Zenco CLI Installation (pipx)"
        /\ flow.terminals[1].sent =
              << IF flow.upgrade THEN "pipx upgrade zenco" ELSE "pipx install zenco",
                 InstallSentinel >>

\* an upgrade went through pipx
PipxUpgradeSeen ==
    /\ PipxFound /\ flow.upgrade
    /\ SentCommand = "pipx upgrade zenco"

\* C19: when pipx is unavailable and the user selects the fallback, the
\* method resolves to pip --user, no pipx bootstrap session is started, and
\* the command sent is `<interpreter> -m pip install --user zenco`, with
\* `--upgrade` added only when upgrade = true.
FallbackUsesPipUser ==
    flow.bootstrap = "Try fallback (pip --user)" =>
        /\ ~flow.pipxProbes[1] /\ Len(flow.pipxProbes) = 1
        /\ flow.method = "pip-user" /\ flow.builtWith = "pip-user"
        /\ flow.confirm = "unasked"
        /\ Len(flow.terminals) = 1
        /\ flow.terminals[1].name = "Zenco CLI Installation (pip --user)"
        /\ flow.terminals[1].sent =
              << IF flow.upgrade
                 THEN flow.pythonCmd \o " -m pip install --user zenco --upgrade"
                 ELSE flow.pythonCmd \o " -m pip install --user zenco",
                 InstallSentinel >>

\* a first install went through the fallback
FallbackInstallSeen ==
    /\ flow.bootstrap = "Try fallback (pip --user)" /\ ~flow.upgrade
    /\ SentCommand = "python3 -m pip install --user zenco"

\* the 'zenco-vscode.checkCli' command found the CLI installed but outdated
CheckCliFoundOutdated ==
    /\ flow.caller = "zenco-vscode.checkCli"
    /\ Len(flow.probes) = 1
    /\ flow.probes[1].installed /\ flow.probes[1].needsUpgrade

\* C22: 'Zenco: Check CLI Installation' shows the installed version and
\* offers to upgrade if needed: whenever the probe of the command reports
\* installed=true with needsUpgrade=true, the command offers an upgrade.
CheckCliOffersUpgrade ==
    CheckCliFoundOutdated => flow.pc = "upgradePrompt"

\* C26: ensureCliInstalled returns true only when the CLI is ready: in every
\* call that returns true, the last probe made during that call reported
\* installed=true and needsUpgrade=false.
TrueOnlyWhenReady ==
    flow.result = "true"
        => Last(flow.probes).installed /\ ~Last(flow.probes).needsUpgrade

\* the last terminal was sent the install command, then the sentinel line
CommandThenSentinel ==
    /\ flow.terminals # <<>>
    /\ Len(Last(flow.terminals).sent) = 2
    /\ Last(flow.terminals).sent[1] = InstallCommand(flow.builtWith, flow.pythonCmd, flow.upgrade)
    /\ Last(flow.terminals).sent[2] = InstallSentinel

\* C28: the verification prompt is shown only after the install command and
\* then the sentinel line were sent to the terminal, in that order, and after
\* the settle delay elapsed; between the sending and the user's answer
\* 'Verify Installation' the installation probe is not invoked.
VerifyPromptAfterSettle ==
    [][ /\ (flow'.pc = "verifyPrompt" /\ flow.pc # "verifyPrompt")
            => flow.pc = "settleTimer" /\ CommandThenSentinel
        /\ (flow.pc \in {"settleTimer", "verifyPrompt"} /\ flow'.probes # flow.probes)
            => flow.pc = "verifyPrompt" /\ flow'.verify = "Verify Installation" ]_vars

\* the verification prompt waits for its answer, nothing probed since the
\* install was sent
VerifyPromptWaitsSeen ==
    /\ flow.pc = "verifyPrompt"
    /\ CommandThenSentinel
    /\ Len(flow.probes) = 1

\* the step in which installCli is called and asks the selector
SelectorAsked ==
    /\ flow.pc \in {"upgradePrompt", "installPrompt"}
    /\ flow'.pipxProbes # <<>>

\* C29: the install-method selector returns 'pipx' exactly when the pipx
\* probe succeeds and 'pipx-missing' otherwise, never 'pip-user' or 'manual';
\* the Homebrew probe is run only after the user chose to install pipx at
\* the bootstrap prompt.
SelectorFollowsPipxProbe ==
    [][ /\ SelectorAsked
            => /\ flow'.method = (IF flow'.pipxProbes[1] THEN "pipx" ELSE "pipx-missing")
               /\ flow'.brewProbes = <<>>
        /\ flow'.brewProbes # flow.brewProbes /\ flow'.brewProbes # <<>>
            => /\ flow.pc = "bootstrapPrompt" /\ flow.method = "pipx-missing"
               /\ flow'.bootstrap = "Install pipx" ]_vars

\* pipx was found missing and Homebrew was probed for the bootstrap
BrewProbedSeen ==
    /\ flow.pipxProbes # <<>> /\ ~flow.pipxProbes[1]
    /\ flow.bootstrap = "Install pipx"
    /\ flow.brewProbes # <<>>

\* installCli was called and has not returned
InstallCliPending == flow.pythonCmd # Null /\ flow.cliResult = "none"

\* C35: every installCli call eventually returns a boolean, provided each
\* prompt it shows is eventually answered or dismissed and each settle timer
\* fires: no probe failure, bootstrap failure or failure to open the manual
\* instructions leaves the returned promise unresolved.
InstallCliReturns == InstallCliPending ~> flow.cliResult \in {"true", "false"}

\* installCli returned although the manual instructions could not be opened
ReturnedAfterManualFailedSeen ==
    /\ flow.verify = "Show Manual Instructions"
    /\ flow.manual = "failed"
    /\ flow.cliResult = "false"

----------------------------------------------------------------------------
(* Properties of compareVersions, checked under SpecCompare *)

Compared == ret.op \in {"compareVersions", "compareVersions twice"}

\* the integer a component stands for, written out; a component that Number
\* does not read as a number stands for nothing and counts 0
ComponentValue(c) ==
    CASE c = <<"0">> -> 0 [] c = <<"1">> -> 1 [] c = <<"2">> -> 2 [] c = <<"3">> -> 3
      [] c = <<"9">> -> 9 [] c = <<"1", "0">> -> 10
      [] c = <<"-", "1">> -> 0 - 1 [] c = <<"0", "x", "1">> -> 1 [] c = <<" ", "1">> -> 1
      [] c \in {<<>>, <<"x">>, <<"1", "x">>} -> 0

NotNumeric == {<<"x">>, <<"1", "x">>}

\* the triple a version is compared as: missing components count 0, those
\* after the third are left out
TripleOf(parts) ==
    [i \in 1..3 |-> IF i <= Len(parts) THEN ComponentValue(parts[i]) ELSE 0]

LexSign(t1, t2) ==
    LET differ == {i \in 1..3 : t1[i] # t2[i]}
    IN  IF differ = {} THEN 0
        ELSE LET i == CHOOSE i \in differ : \A j \in differ : i <= j
             IN  IF t1[i] > t2[i] THEN 1 ELSE 0 - 1

WellFormed(parts) == \A i \in 1..Len(parts) : parts[i] \in DigitComponents

\* C23: compareVersions(a, b) equals the sign of the lexicographic comparison
\* of the integer triples of a and b, where a missing component counts as 0
\* and components after the third are ignored; compare("1.2.3", "1.2.3") = 0,
\* compare("0.1.0", "0.2.0") = -1, compare("2.0.0", "1.9.9") = 1 and
\* compare("1.2", "1.2.0") = 0.
CompareIsLexSign ==
    (Compared /\ WellFormed(ret.parts1) /\ WellFormed(ret.parts2))
        => /\ ret.val = LexSign(TripleOf(ret.parts1), TripleOf(ret.parts2))
           /\ (ret.parts1 = <<<<"1">>, <<"2">>, <<"3">>>> /\ ret.parts2 = ret.parts1)
                 => ret.val = 0
           /\ (ret.parts1 = <<<<"0">>, <<"1">>, <<"0">>>>
                 /\ ret.parts2 = <<<<"0">>, <<"2">>, <<"0">>>>) => ret.val = 0 - 1
           /\ (ret.parts1 = <<<<"2">>, <<"0">>, <<"0">>>>
                 /\ ret.parts2 = <<<<"1">>, <<"9">>, <<"9">>>>) => ret.val = 1
           /\ (ret.parts1 = <<<<"1">>, <<"2">>>>
                 /\ ret.parts2 = <<<<"1">>, <<"2">>, <<"0">>>>) => ret.val = 0

\* versions that differ in their fourth component only compared equal
FourthIgnoredSeen ==
    /\ Compared /\ WellFormed(ret.parts1) /\ WellFormed(ret.parts2)
    /\ Len(ret.parts1) = 4 /\ Len(ret.parts2) = 4
    /\ ret.parts1[4] # ret.parts2[4]
    /\ ret.val = 0

ThreeComponents(parts) == Len(parts) = 3 /\ WellFormed(parts)

\* C24: compareVersions is antisymmetric: compare(a, b) = -compare(b, a) for
\* all well-formed three-component version strings a and b.
CompareAntisymmetric ==
    (ret.op = "compareVersions twice"
        /\ ThreeComponents(ret.parts1) /\ ThreeComponents(ret.parts2))
        => ret.val = 0 - ret.back

\* two different versions were compared both ways
ComparedBothWaysSeen ==
    /\ ret.op = "compareVersions twice"
    /\ ThreeComponents(ret.parts1) /\ ThreeComponents(ret.parts2)
    /\ ret.val = 1 /\ ret.back = 0 - 1

----------------------------------------------------------------------------
(* Properties of overlapping flows, checked under SpecOverlap *)

\* C12: at most one install/upgrade flow is active at a time: although the
\* activation-time call and the installCli and checkCli commands can each be
\* triggered while another flow is suspended at a prompt or a timer, no two
\* ensureCliInstalled / installCli flows are in progress simultaneously.
OneFlowAtATime == ~(InProgress(flow) /\ InProgress(second))

----------------------------------------------------------------------------
(* Properties of the feature commands, checked under SpecFeature *)

\* a previewed result is stored, waiting to be applied or discarded
PendingActive == feature.pendingResult # NullResult

\* C13: a feature command invoked while a previous feature's pending result
\* is stored never discards or overwrites that result, also not when the
\* user then cancels the new Preview/Apply choice: a stored pending result
\* changes only when the user applies or discards it.
PendingResultKept ==
    [][ (PendingActive /\ feature'.pendingResult # feature.pendingResult)
            => feature.pc = "applyPick" ]_vars

\* the probe of the feature invocation reported the CLI absent or outdated
FeatureFoundCliWanting ==
    /\ feature.probes # <<>>
    /\ ~feature.probes[1].installed \/ feature.probes[1].needsUpgrade

\* an ensureCliInstalled / installCli flow was started by command name
OrchestratorInvokedBy(name) == flow.caller = name \/ second.caller = name

\* C20: for every feature invocation, if the installation probe reports the
\* CLI absent or outdated, ensureCliInstalled / installCli is invoked as part
\* of that invocation.
FeatureInvokesOrchestrator ==
    FeatureFoundCliWanting => OrchestratorInvokedBy(feature.name)

\* the step is the 'apply' answer to 'Apply or Discard pending changes?'
ExplicitApply ==
    /\ feature.pc = "applyPick"
    /\ feature'.messages = <<PendingAppliedInfo>>

\* C21: in preview mode the document is never edited before an explicit
\* apply: a document's text changes only in the run of a feature whose quick
\* pick was answered 'Apply Changes', or in the step in which the user answers
\* 'apply' to the prompt of applyPending; showing the preview changes none.
PreviewNeverEdits ==
    [][ feature'.documents # feature.documents
            => \/ feature.pc = "running" /\ feature.applyChanges
               \/ ExplicitApply ]_vars

\* a previewed change was applied through applyPending
PreviewAppliedSeen ==
    /\ ~feature.applyChanges
    /\ feature.messages = <<PendingAppliedInfo>>
    /\ \E d \in Editors : feature.documents[d] # "original"

\* the step in which the feature function of an invocation returns
FeatureRan == feature.pc = "running" /\ feature'.pc = "idle"

\* the invocation probed once and executed `run` on what the probe resolved
ProbedThenRan(ft) ==
    /\ Len(ft.probes) = 1
    /\ ft.command # <<>>
    /\ ft.command[1] = (IF ft.probes[1].resolvedPath = ""
                         THEN "zenco" ELSE ft.probes[1].resolvedPath)
    /\ ft.command[2] = "run" /\ ft.command[3] = ft.editor

\* C27 as stated: every feature invocation asks the installation probe first
\* and only then executes the CLI: runZencoCommand runs `run` on the
\* resolvedPath returned by the probe (or on the bare name if none was
\* returned), also when installed=false.
EveryInvocationProbesAndRuns ==
    [][ FeatureRan => ProbedThenRan(feature') ]_vars

\* C27, amended: a feature invocation whose configuration is valid asks the
\* probe once and then runs `run` on the resolvedPath returned (or on the bare
\* name), also when installed=false; with an invalid configuration it
\* reports the missing API key and neither probes nor executes anything.
ValidInvocationProbesAndRuns ==
    [][ FeatureRan
            => \/ ProbedThenRan(feature')
               \/ /\ feature'.probes = <<>> /\ feature'.command = <<>>
                  /\ feature'.messages = <<NoApiKeyError>> ]_vars

\* the CLI was executed although the probe reported it not installed
RanUninstalledSeen ==
    /\ ProbedThenRan(feature)
    /\ ~feature.probes[1].installed

\* the step is the 'discard' answer to 'Apply or Discard pending changes?'
DiscardChosen ==
    /\ feature.pc = "applyPick"
    /\ feature'.messages = <<DiscardedInfo>>

\* the step is applyPending invoked with nothing pending: a step of the idle
\* extension that is no feature command
ApplyPendingWithNothing ==
    /\ feature.pc = "idle"
    /\ feature.pendingResult = NullResult \/ feature.pendingEditor = Null
    /\ feature' # feature
    /\ feature'.pc # "quickPick"
    /\ feature'.messages # <<NoEditorError>>

\* C31: choosing 'Discard Changes' in applyPending clears the pending result
\* and editor, resets the status bar to menu mode and applies no edit to the
\* document; invoking applyPending with no pending result reports an error
\* and applies no edit.
DiscardClearsAndKeepsDocument ==
    [][ /\ DiscardChosen
            => /\ feature'.pendingResult = NullResult
               /\ feature'.pendingEditor = Null
               /\ feature'.statusBar = "zenco-vscode.showMenu"
               /\ feature'.documents = feature.documents
        /\ ApplyPendingWithNothing
            => /\ feature'.messages = <<NoPendingError>>
               /\ feature'.pc = "idle"
               /\ feature'.documents = feature.documents ]_vars

\* a previewed change was discarded and the document is as it was
DiscardedSeen ==
    /\ feature.messages = <<DiscardedInfo>>
    /\ feature.pendingResult = NullResult /\ feature.pendingEditor = Null
    /\ feature.statusBar = "zenco-vscode.showMenu"
    /\ \A d \in Editors : feature.documents[d] = "original"

----------------------------------------------------------------------------
(* Properties of runZencoCommand, checked under SpecRunner *)

RunnerReturned == ret.op = "runZencoCommand"

\* C32: runZencoCommand never raises to its caller: every failure (invalid
\* configuration, probe failure, CLI execution failure, malformed output) is
\* returned as a result value; when the configuration is invalid (strategy
\* 'llm' with no API key) it returns success=false with the configuration
\* message without running the probe or the CLI.
RunnerNeverRaises ==
    RunnerReturned
        => /\ ~ret.val.raised
           /\ (ret.config.strategy = "llm" /\ ret.config.apiKey = "")
                 => /\ ~ret.val.result.success
                    /\ ret.val.result.error = NoApiKeyError
                    /\ ret.val.probes = <<>> /\ ret.val.command = <<>>
           /\ (~ExecHelp(env, "zenco").ok /\ ret.val.probes # <<>>
                 /\ ~ret.val.probes[1].installed)
                 => ~ret.val.result.success /\ ret.val.result.error = CommandFailed
           /\ ret.run.kind = "failed" => ~ret.val.result.success

\* the probe failed, the command could not start, and a result came back
FailureReturnedSeen ==
    /\ RunnerReturned
    /\ ret.val.probes # <<>> /\ ~ret.val.probes[1].installed
    /\ ~ret.val.raised
    /\ ret.val.result.error = CommandFailed

\* a command line is built under these settings
BuildsCommand(config) == config.strategy # "llm" \/ config.apiKey # ""

\* what the call would have done had the API key been key
WithKey(key) ==
    runZencoCommand(env, ret.name, ret.file, [ret.config EXCEPT !.apiKey = key], ret.run)

Occurs(x, line) == \E i \in 1..Len(line) : line[i] = x

\* C33: the API key is passed to the CLI only through the process
\* environment: for two configurations that differ only in the API key value,
\* the command line built by runZencoCommand and the text it logs are
\* identical, and the key appears only in the environment variable of the
\* configured provider.
KeyOnlyInEnvironment ==
    (RunnerReturned /\ BuildsCommand(ret.config))
        => /\ \A key \in {"", "k1", "k2"} :
                 BuildsCommand([ret.config EXCEPT !.apiKey = key])
                     => /\ WithKey(key).command = ret.val.command
                        /\ WithKey(key).logs = ret.val.logs
           /\ ret.config.apiKey # ""
                 => /\ ~Occurs(ret.config.apiKey, ret.val.command)
                    /\ \A n \in 1..Len(ret.val.logs) :
                          ~Occurs(ret.config.apiKey, ret.val.logs[n])
           /\ \A v \in ApiKeyVars :
                 ret.val.childEnv[v] =
                    (IF ret.config.apiKey # ""
                        /\ \/ v = "GROQ_API_KEY" /\ ret.config.provider = "groq"
                           \/ v = "OPENAI_API_KEY" /\ ret.config.provider = "openai"
                           \/ v = "ANTHROPIC_API_KEY" /\ ret.config.provider = "anthropic"
                           \/ v = "GEMINI_API_KEY" /\ ret.config.provider = "gemini"
                     THEN ret.config.apiKey
                     ELSE IF v = "OPENAI_API_KEY" THEN "inherited" ELSE "")

\* a command ran with the key in the variable of its provider, over the
\* value inherited from the extension host
KeyPassedSeen ==
    /\ RunnerReturned
    /\ ret.config.apiKey = "k2" /\ ret.config.provider = "openai"
    /\ ret.val.command # <<>>
    /\ ret.val.childEnv["OPENAI_API_KEY"] = "k2"
    /\ ret.val.result.success

\* the options of the command line: what follows `<executable> run <file>`
OptionsOf(command) == SubSeq(command, 4, Len(command))

\* the flag stands in the options and is followed by its value
FlagWithValue(options, flag, value) ==
    \E i \in 1..(Len(options) - 1) : options[i] = flag /\ options[i + 1] = value

\* the configured argument list, written out
ConfiguredArgs(name, config) ==
    (IF name = "Refactor File" THEN <<"--refactor">> ELSE <<"--docstrings">>)
        \o (IF config.provider # "" THEN <<"--provider", config.provider>> ELSE <<>>)
        \o (IF config.model # "" THEN <<"--model", config.model>> ELSE <<>>)
        \o <<"--style", config.docstringStyle, "--strategy", config.strategy>>

\* C34: the option list placed on the CLI command line is the configured
\* argument list (the base options, then --provider <p>, optional --model
\* <m>, --style <s>, --strategy <g>) in order with `--json` present exactly
\* once; de-duplication only affects `--json`, so for all configuration
\* values every flag is still followed by its value.
OptionsKeepEveryValue ==
    (RunnerReturned /\ ret.val.command # <<>>)
        => /\ Cardinality({i \in 1..Len(OptionsOf(ret.val.command)) :
                              OptionsOf(ret.val.command)[i] = "--json"}) = 1
           /\ SelectSeq(OptionsOf(ret.val.command), LAMBDA x : x # "--json")
                 = SelectSeq(ConfiguredArgs(ret.name, ret.config), LAMBDA x : x # "--json")
           /\ ret.config.provider # ""
                 => FlagWithValue(OptionsOf(ret.val.command), "--provider", ret.config.provider)
           /\ ret.config.model # ""
                 => FlagWithValue(OptionsOf(ret.val.command), "--model", ret.config.model)
           /\ FlagWithValue(OptionsOf(ret.val.command), "--style", ret.config.docstringStyle)
           /\ FlagWithValue(OptionsOf(ret.val.command), "--strategy", ret.config.strategy)

----------------------------------------------------------------------------
(* Properties of the DiffViewer, checked under SpecDiff *)

\* C36: after showDiff(original, modified, fileName), the diff content
\* provider returns exactly `original` for the original URI of that file name
\* and `modified` for its modified URI, until a later showDiff with the same
\* file name replaces them; previews of different file names never change
\* each other's content, and an unknown URI yields the empty string.
PreviewsKeptApart ==
    ret.provided # <<>>
        => ret.provided[3] =
              (IF ret.provided[1] = "original"
               THEN ret.latest[ret.provided[2]].original
               ELSE ret.latest[ret.provided[2]].modified)

====
